---- MODULE Spec2Model ----
(***************************************************************************)
(* A model of the glyph flow crawler: the generic tree walker              *)
(* (crawler/parsers/walker.rs), the language front ends, the directory     *)
(* router (crawler/router.rs) and the hierarchy leveler                    *)
(* (crawler/mod.rs, hierarchy_levels).                                     *)
(*                                                                         *)
(* Strings are sequences of tokens: a path is <<"a", ".rs">>, a bare       *)
(* function id is <<"f">>, a decision id is                                *)
(* <<"_decision_", "1", SEP, "if", " ", "c">>.  format!("{}::{}", p, k) is *)
(* the concatenation p \o <<"::">> \o k and contains(DECISION_SEP) is a    *)
(* search for the SEP token.  Option<String> is <<>> (None) or <<s>>.      *)
(***************************************************************************)
EXTENDS Integers, Sequences, FiniteSets, TLC

VARIABLES
    \* ---- CrawlerRouter::crawl ----
    root,         \* the file system under the requested root: [kind, entries]
    pc,           \* position of crawl: start, phase1, phase2, phase3, post, prune, done
    todo,         \* WalkDir entries not yet visited (set of indexes into root.entries)
    parsed,       \* relative paths handed to a parser (parse_with_lines called)
    per_file,     \* Vec<(rel, abs, file_graph, line_numbers)>
    defined_in,   \* bare name -> Vec of declaring files
    graph,        \* the namespaced CallGraph
    source_map,   \* ns key -> (abs path, line)
    passes,       \* number of pruning passes that removed something
    \* ---- hierarchy_levels ----
    lgraph,       \* argument graph: caller -> Vec of targets
    all_fns,      \* argument all_fns
    lpc,          \* position: callers, seed, relax, fill, done
    callee_to_callers,
    level,
    changed,
    iteration,
    warned,       \* the cycle warning was emitted
    unresolved,   \* ids still at the sentinel when relaxation ended
    \* ---- a second crawl of the same directory ----
    first_run,    \* what the first crawl returned: NoneOpt until crawl is called again
    \* ---- the crawl systems of the application (crawler/mod.rs) ----
    requests,     \* CrawlRequest messages written and not yet read
    watch,        \* WatchState: watcher, rx, watch_path, no_flow, last_event
    canvas,       \* the CanvasNode and Edge entities
    spatial_index, \* SpatialIndex: the ids it holds
    status,       \* StatusMessage.text
    burst,        \* NoneOpt, or Some(ms since the newest relevant notification was
                  \* observed) while the notifications observed wait for their re-crawl
    \* ---- source files changing while a crawl request is handled ----
    disk_version, \* number of changes made so far to the source files of the root
    shown_version, \* the disk_version the canvas was built from
    handling,     \* NoneOpt, or Some(requests read, disk_version read) between the
                  \* router's reading of the files and the end of the handler
    \* ---- find_traced_paths (crawler/tracing.rs) ----
    trace_edges,  \* argument edges: (edge_entity, source_ent, target_ent)
    trace_source, \* argument source_entity
    trace_sink,   \* argument sink_entity
    tpc,          \* position: idle, adj, dfs, done
    trace_adj,    \* adj: node -> Vec of (edge, next_node)
    trace_result  \* result_set

crawlVars == <<root, pc, todo, parsed, per_file, defined_in, graph, source_map, passes>>
levelVars == <<lgraph, all_fns, lpc, callee_to_callers, level, changed, iteration, warned, unresolved>>
traceVars == <<trace_edges, trace_source, trace_sink, tpc, trace_adj, trace_result>>
histVars == <<first_run, disk_version, shown_version, handling, traceVars>>
appVars == <<requests, watch, canvas, spatial_index, status, burst>>
vars == <<crawlVars, levelVars, histVars, appVars>>

-----------------------------------------------------------------------------
(* Strings, options, maps *)

SEP == "<US>"

NoneOpt == <<>>

Some(x) == <<x>>

Contains(s, tok) == \E i \in DOMAIN s : s[i] = tok

StartsWith(s, pre) == Len(s) >= Len(pre) /\ SubSeq(s, 1, Len(pre)) = pre

ContainsSeq(s, sub) ==
    \E i \in 1..(Len(s) - Len(sub) + 1) : SubSeq(s, i, i + Len(sub) - 1) = sub

EmptyMap == <<>>

MapEntry(m, k) == IF k \in DOMAIN m THEN m ELSE m @@ (k :> <<>>)

MapPush(m, k, e) == [MapEntry(m, k) EXCEPT ![k] = Append(@, e)]

MapInsert(m, k, v) == [x \in (DOMAIN m) \cup {k} |-> IF x = k THEN v ELSE m[x]]

-----------------------------------------------------------------------------
(* tree_sitter::Node, as the walker uses it: kind(), the source text of the *)
(* node (get_text, already trimmed), start_position().row, and the children *)
(* in order, each with the field name it is attached under ("" for none).   *)

MkNode(kind, text, row, children) ==
    [kind |-> kind, text |-> text, row |-> row, children |-> children]

Child(field, node) == [field |-> field, node |-> node]

child_count(node) == Len(node.children)

child_by_field_name(node, f) ==
    LET idx == {i \in DOMAIN node.children : node.children[i].field = f}
    IN  IF idx = {} THEN NoneOpt
        ELSE Some(node.children[CHOOSE i \in idx : \A j \in idx : i <= j].node)

get_text(node) == node.text

\* Option<&str> field of WalkerConfig used as a field name.
opt_field(node, optf) ==
    IF optf = NoneOpt THEN NoneOpt ELSE child_by_field_name(node, optf[1])

\* A token stands for one character of the text.
truncate(s, max) ==
    IF Len(s) <= max THEN s ELSE SubSeq(s, 1, max) \o <<"...">>

TruncateAt == 40

Scope(id, label) == [id |-> id, label |-> label]

FlowEdge(target, label) == [target |-> target, label |-> label]

decision_id_of(ctr, display) == <<"_decision_", ToString(ctr), SEP>> \o display

link_from_parent_labeled(map, stack, decision_id) ==
    IF stack = <<>> THEN map
    ELSE MapPush(map, stack[Len(stack)].id, FlowEdge(decision_id, stack[Len(stack)].label))

\* if let Some(parent_id) = stack.last() { map.entry(parent_id).or_default().push(edge to decision) }
link_from_parent(map, stack, decision_id) ==
    IF stack = <<>> THEN map
    ELSE MapPush(map, stack[Len(stack)].id, FlowEdge(decision_id, NoneOpt))

\* The display text of a decision node: the keyword, then the condition when there is one.
display_of(word, cond_text) ==
    IF cond_text = <<>> THEN <<word>> ELSE <<word, " ">> \o cond_text

cond_text_of(node, optf) ==
    LET c == opt_field(node, optf)
    IN  IF c = NoneOpt THEN <<>> ELSE truncate(get_text(c[1]), TruncateAt)

\* The callee name of a call node's function child (walker.rs 478-492).
callee_of(cfg, func) ==
    LET viaField(f) ==
            LET n == child_by_field_name(func, f)
            IN  IF n = NoneOpt THEN get_text(func) ELSE get_text(n[1])
    IN  IF func.kind = cfg.method_receiver_kind THEN viaField(cfg.method_name_field)
        ELSE IF cfg.path_call_kind = Some(func.kind)
             THEN viaField(IF cfg.path_name_field = NoneOpt THEN "name"
                           ELSE cfg.path_name_field[1])
        ELSE get_text(func)

arm_label_wildcard(cfg, arm) == Some(<<"_">>)

\* The label of a match arm: the text of its last non-empty pattern child, else "_".
arm_label(cfg, arm) ==
    LET pats == IF cfg.match_pattern_kind = NoneOpt THEN {}
                ELSE {k \in DOMAIN arm.children :
                        /\ arm.children[k].node.kind = cfg.match_pattern_kind[1]
                        /\ get_text(arm.children[k].node) # <<>>}
    IN  IF pats = {} THEN Some(<<"_">>)
        ELSE Some(get_text(arm.children[CHOOSE k \in pats : \A j \in pats : j <= k].node))

is_test_mod_unnamed(cfg, node) ==
    /\ cfg.test_mod_kind = Some(node.kind)
    /\ child_by_field_name(node, cfg.test_mod_name_field) = NoneOpt

is_test_mod(cfg, node) ==
    /\ cfg.test_mod_kind = Some(node.kind)
    /\ LET n == child_by_field_name(node, cfg.test_mod_name_field)
       IN  (IF n = NoneOpt THEN <<>> ELSE get_text(n[1])) \in cfg.test_mod_names

-----------------------------------------------------------------------------
(* walk_tree: the recursive walk.  st is [map, ctr, lines]: the flow map,   *)
(* the decision counter and the line map; the scope stack is a parameter    *)
(* because every push is matched by a pop.  parent is Some(parent node).    *)

RECURSIVE walk(_, _, _, _, _, _)
RECURSIVE walk_children(_, _, _, _, _, _)
RECURSIVE walk_elifs(_, _, _, _, _, _, _, _)
RECURSIVE walk_arms(_, _, _, _, _, _, _)
RECURSIVE walk_arm_body(_, _, _, _, _, _)

walk_opt(cfg, opt, parent, stack, force, st) ==
    IF opt = NoneOpt THEN st ELSE walk(cfg, opt[1], parent, stack, force, st)

\* for i in 0..node.child_count() { walk(node.child(i)) }, from child i on.
\* The walk of child i is complete (its counter is known) before the next
\* child is visited.
walk_children(cfg, node, i, stack, force, st) ==
    IF i > child_count(node) THEN st
    ELSE LET st1 == walk(cfg, node.children[i].node, Some(node), stack, force, st)
         IN  IF st1.ctr >= 0
             THEN walk_children(cfg, node, i + 1, stack, force, st1)
             ELSE st1

walk_function_no_entry(cfg, node, name, stack, force, st) ==
    walk_children(cfg, node, 1, Append(stack, Scope(name, NoneOpt)), force,
                  [st EXCEPT !.lines = MapInsert(@, name, node.row + 1)])

walk_function_zero_indexed(cfg, node, name, stack, force, st) ==
    LET st1 == [st EXCEPT !.lines = MapInsert(@, name, node.row)]
        st2 == walk_children(cfg, node, 1, Append(stack, Scope(name, NoneOpt)), force, st1)
    IN  IF st1.ctr >= 0 /\ st2.ctr >= 0
        THEN [st2 EXCEPT !.map = MapEntry(@, name)]
        ELSE st

\* Named or anonymous function: record the line, walk the body in a new scope,
\* then map.entry(name).or_default().
walk_function(cfg, node, name, stack, force, st) ==
    LET st1 == [st EXCEPT !.lines = MapInsert(@, name, node.row + 1)]
        st2 == walk_children(cfg, node, 1, Append(stack, Scope(name, NoneOpt)), force, st1)
    IN  IF st1.ctr >= 0 /\ st2.ctr >= 0
        THEN [st2 EXCEPT !.map = MapEntry(@, name)]
        ELSE st

function_name(cfg, node) ==
    LET n == child_by_field_name(node, cfg.function_name_field)
    IN  IF n = NoneOpt THEN <<"<anon_fn>">> ELSE get_text(n[1])

anon_function_name(cfg, parent) ==
    IF parent # NoneOpt /\ parent[1].kind \in cfg.anon_parent_kinds
    THEN LET n == child_by_field_name(parent[1], cfg.anon_parent_name_field)
         IN  IF n = NoneOpt THEN <<"<anon_fn>">> ELSE get_text(n[1])
    ELSE <<"<anon_fn>">>

else_label_true == <<"True">>

\* label: Some("False".to_string()): the label of the scope of an else branch.
else_label == <<"False">>

\* Python-style elif clauses: children of kind elif_kind, in order.
walk_elifs(cfg, node, i, elif_n, decision_id, stack, force, st) ==
    IF i > child_count(node) THEN st
    ELSE LET child == node.children[i].node
         IN  IF child.kind # cfg.elif_clause_kind[1]
             THEN walk_elifs(cfg, node, i + 1, elif_n, decision_id, stack, force, st)
             ELSE LET n     == elif_n + 1
                      st1   == walk_opt(cfg, opt_field(child, cfg.elif_condition_field),
                                        Some(child), stack, force, st)
                      label == IF n = 1 THEN <<"Elif">> ELSE <<"Elif_", ToString(n)>>
                      st2   == walk_opt(cfg, opt_field(child, cfg.elif_body_field), Some(child),
                                        Append(stack, Scope(decision_id, Some(label))), force, st1)
                  IN  IF st1.ctr >= 0 /\ st2.ctr >= 0
                      THEN walk_elifs(cfg, node, i + 1, n, decision_id, stack, force, st2)
                      ELSE st

\* Python-style else clause: the first child of kind else_kind, then break.
walk_else_clause(cfg, node, decision_id, stack, force, st) ==
    LET idx == {i \in DOMAIN node.children : node.children[i].node.kind = cfg.else_clause_kind[1]}
    IN  IF idx = {} THEN st
        ELSE LET child == node.children[CHOOSE i \in idx : \A j \in idx : i <= j].node
             IN  walk_opt(cfg, opt_field(child, cfg.else_body_field), Some(child),
                          Append(stack, Scope(decision_id, Some(else_label))), force, st)

walk_if(cfg, node, stack, force, st) ==
    LET ctr         == st.ctr + 1
        display     == display_of("if", cond_text_of(node, cfg.if_condition_field))
        decision_id == decision_id_of(ctr, display)
        st0 == [st EXCEPT !.ctr = ctr, !.map = link_from_parent(@, stack, decision_id)]
        st1 == walk_opt(cfg, opt_field(node, cfg.if_condition_field), Some(node), stack, force, st0)
        st2 == walk_opt(cfg, opt_field(node, cfg.if_then_field), Some(node),
                        Append(stack, Scope(decision_id, Some(<<"True">>))), force, st1)
        st3 == walk_opt(cfg, opt_field(node, cfg.if_else_field), Some(node),
                        Append(stack, Scope(decision_id, Some(else_label))), force, st2)
        st4 == IF cfg.elif_clause_kind = NoneOpt THEN st3
               ELSE walk_elifs(cfg, node, 1, 0, decision_id, stack, force, st3)
        st5 == IF cfg.else_clause_kind = NoneOpt THEN st4
               ELSE walk_else_clause(cfg, node, decision_id, stack, force, st4)
    IN  IF /\ st0.ctr >= 0 /\ st1.ctr >= 0 /\ st2.ctr >= 0
           /\ st3.ctr >= 0 /\ st4.ctr >= 0 /\ st5.ctr >= 0
        THEN [st5 EXCEPT !.map = MapEntry(@, decision_id)]
        ELSE st

walk_loop(cfg, node, stack, force, st) ==
    LET ctr         == st.ctr + 1
        is_while    == node.kind \in cfg.while_kinds
        cond_text   == IF is_while THEN cond_text_of(node, cfg.while_condition_field) ELSE <<>>
        display     == display_of(IF is_while THEN "while" ELSE "for", cond_text)
        decision_id == decision_id_of(ctr, display)
        st0 == [st EXCEPT !.ctr = ctr, !.map = link_from_parent(@, stack, decision_id)]
        st1 == walk_opt(cfg, opt_field(node, cfg.loop_body_field), Some(node),
                        Append(stack, Scope(decision_id, Some(<<"Loop">>))), force, st0)
    IN  IF st0.ctr >= 0 /\ st1.ctr >= 0
        THEN [st1 EXCEPT !.map = MapEntry(@, decision_id)]
        ELSE st

\* The children of one arm that are not its pattern, walked in the arm's scope.
walk_arm_body(cfg, arm, k, stack, force, st) ==
    IF k > child_count(arm) THEN st
    ELSE LET sub == arm.children[k].node
             is_pattern == cfg.match_pattern_kind = Some(sub.kind)
             st1 == IF is_pattern THEN st
                    ELSE walk(cfg, sub, Some(arm), stack, force, st)
         IN  IF st1.ctr >= 0
             THEN walk_arm_body(cfg, arm, k + 1, stack, force, st1)
             ELSE st1

walk_arms(cfg, arms_parent, i, decision_id, stack, force, st) ==
    IF i > child_count(arms_parent) THEN st
    ELSE LET child == arms_parent.children[i].node
             st1 == IF child.kind # cfg.match_arm_kind[1] THEN st
                    ELSE walk_arm_body(cfg, child, 1,
                             Append(stack, Scope(decision_id, arm_label(cfg, child))),
                             force, st)
         IN  IF st1.ctr >= 0
             THEN walk_arms(cfg, arms_parent, i + 1, decision_id, stack, force, st1)
             ELSE st1

walk_match(cfg, node, stack, force, st) ==
    LET ctr         == st.ctr + 1
        display     == display_of("match", cond_text_of(node, cfg.match_value_field))
        decision_id == decision_id_of(ctr, display)
        st0 == [st EXCEPT !.ctr = ctr, !.map = link_from_parent(@, stack, decision_id)]
        st1 == walk_opt(cfg, opt_field(node, cfg.match_value_field), Some(node), stack, force, st0)
        body        == opt_field(node, cfg.match_body_field)
        arms_parent == IF body = NoneOpt THEN node ELSE body[1]
        st2 == IF cfg.match_arm_kind = NoneOpt THEN st1
               ELSE walk_arms(cfg, arms_parent, 1, decision_id, stack, force, st1)
    IN  IF st0.ctr >= 0 /\ st1.ctr >= 0 /\ st2.ctr >= 0
        THEN [st2 EXCEPT !.map = MapEntry(@, decision_id)]
        ELSE st

call_filtered_unforced(cfg, callee, force) == callee \in cfg.builtins

\* Builtins filter: skip unless the name is force-included via @flow.
call_filtered(cfg, callee, force) == callee \in cfg.builtins /\ callee \notin force

walk_call(cfg, node, stack, force, st) ==
    LET func == child_by_field_name(node, cfg.call_function_field)
    IN  IF func = NoneOpt THEN st
        ELSE LET callee == callee_of(cfg, func[1])
                 st1 == IF callee # <<>> /\ ~call_filtered(cfg, callee, force) /\ stack # <<>>
                        THEN [st EXCEPT !.map = MapPush(@, stack[Len(stack)].id,
                                                  FlowEdge(callee, stack[Len(stack)].label))]
                        ELSE st
             IN  IF st1.ctr >= 0
                 THEN walk_children(cfg, node, 1, stack, force, st1)
                 ELSE st1

\* The branch of walk's if / else-if chain that node takes: the first test
\* of the chain that succeeds.
walk_branch(cfg, node) ==
    IF is_test_mod(cfg, node) THEN "test_mod"
    ELSE IF node.kind \in cfg.function_kinds THEN "function"
    ELSE IF node.kind \in cfg.anon_function_kinds THEN "anon_function"
    ELSE IF cfg.if_kind = Some(node.kind) THEN "if"
    ELSE IF node.kind \in cfg.for_kinds \/ node.kind \in cfg.while_kinds THEN "loop"
    ELSE IF cfg.match_kind = Some(node.kind) THEN "match"
    ELSE IF node.kind = cfg.call_kind THEN "call"
    ELSE "other"

walk(cfg, node, parent, stack, force, st) ==
    CASE walk_branch(cfg, node) = "test_mod" -> st
      [] walk_branch(cfg, node) = "function" ->
            walk_function(cfg, node, function_name(cfg, node), stack, force, st)
      [] walk_branch(cfg, node) = "anon_function" ->
            walk_function(cfg, node, anon_function_name(cfg, parent), stack, force, st)
      [] walk_branch(cfg, node) = "if" -> walk_if(cfg, node, stack, force, st)
      [] walk_branch(cfg, node) = "loop" -> walk_loop(cfg, node, stack, force, st)
      [] walk_branch(cfg, node) = "match" -> walk_match(cfg, node, stack, force, st)
      [] walk_branch(cfg, node) = "call" -> walk_call(cfg, node, stack, force, st)
      [] walk_branch(cfg, node) = "other" -> walk_children(cfg, node, 1, stack, force, st)

-----------------------------------------------------------------------------
(* collect_force_includes: the names of the functions whose immediately     *)
(* preceding named sibling is a comment containing @flow.                   *)

RECURSIVE scan(_, _, _, _)
RECURSIVE scan_children(_, _, _, _)

has_flow_comment(cfg, prev) ==
    /\ prev # NoneOpt
    /\ prev[1].kind = cfg.comment_kind[1]
    /\ Contains(get_text(prev[1]), "@flow")

scan_children(cfg, node, i, includes) ==
    IF i > child_count(node) THEN includes
    ELSE LET inc == scan(cfg, node.children[i].node,
                         IF i = 1 THEN NoneOpt ELSE Some(node.children[i - 1].node), includes)
         IN  IF inc \subseteq inc
             THEN scan_children(cfg, node, i + 1, inc)
             ELSE inc

scan(cfg, node, prev, includes) ==
    IF is_test_mod(cfg, node) THEN includes
    ELSE LET is_fn == node.kind \in cfg.function_kinds \/ node.kind \in cfg.anon_function_kinds
             n     == child_by_field_name(node, cfg.function_name_field)
             inc   == IF is_fn /\ has_flow_comment(cfg, prev) /\ n # NoneOpt /\ get_text(n[1]) # <<>>
                      THEN includes \cup {get_text(n[1])}
                      ELSE includes
         IN  scan_children(cfg, node, 1, inc)

collect_force_includes(cfg, tree) ==
    IF cfg.comment_kind = NoneOpt THEN {} ELSE scan(cfg, tree, NoneOpt, {})

walk_tree(cfg, tree) ==
    LET force == collect_force_includes(cfg, tree)
        st == walk(cfg, tree, NoneOpt, <<>>, force,
                   [map |-> EmptyMap, ctr |-> 0, lines |-> EmptyMap])
    IN  IF force \subseteq force /\ st.ctr >= 0
        THEN [graph |-> st.map, lines |-> st.lines]
        ELSE [graph |-> EmptyMap, lines |-> EmptyMap]

-----------------------------------------------------------------------------
(* The language front ends: one WalkerConfig each.  The built-in tables     *)
(* keep two representative names of the phf sets.                           *)

PYTHON_BUILTINS == {<<"len">>, <<"print">>}

RUST_BUILTINS == {<<"len">>, <<"unwrap">>}

TYPESCRIPT_BUILTINS == {<<"log">>, <<"push">>}

PYTHON_CONFIG ==
    [ function_kinds |-> {"function_definition"}, function_name_field |-> "name",
      anon_function_kinds |-> {}, anon_parent_kinds |-> {}, anon_parent_name_field |-> "name",
      call_kind |-> "call", call_function_field |-> "function",
      method_receiver_kind |-> "attribute", method_name_field |-> "attribute",
      path_call_kind |-> NoneOpt, path_name_field |-> NoneOpt,
      if_kind |-> Some("if_statement"), if_condition_field |-> Some("condition"),
      if_then_field |-> Some("consequence"), if_else_field |-> NoneOpt,
      elif_clause_kind |-> Some("elif_clause"), elif_condition_field |-> Some("condition"),
      elif_body_field |-> Some("consequence"),
      else_clause_kind |-> Some("else_clause"), else_body_field |-> Some("body"),
      for_kinds |-> {"for_statement"}, while_kinds |-> {"while_statement"},
      loop_body_field |-> Some("body"), while_condition_field |-> Some("condition"),
      match_kind |-> NoneOpt, match_value_field |-> NoneOpt, match_body_field |-> NoneOpt,
      match_arm_kind |-> NoneOpt, match_pattern_kind |-> NoneOpt,
      test_mod_kind |-> NoneOpt, test_mod_name_field |-> "", test_mod_names |-> {},
      builtins |-> PYTHON_BUILTINS, comment_kind |-> Some("comment") ]

TYPESCRIPT_CONFIG ==
    [ function_kinds |-> {"function_declaration", "method_definition",
                          "generator_function_declaration"},
      function_name_field |-> "name",
      anon_function_kinds |-> {"arrow_function", "function_expression"},
      anon_parent_kinds |-> {"variable_declarator", "public_field_definition"},
      anon_parent_name_field |-> "name",
      call_kind |-> "call_expression", call_function_field |-> "function",
      method_receiver_kind |-> "member_expression", method_name_field |-> "property",
      path_call_kind |-> NoneOpt, path_name_field |-> NoneOpt,
      if_kind |-> Some("if_statement"), if_condition_field |-> Some("condition"),
      if_then_field |-> Some("consequence"), if_else_field |-> Some("alternative"),
      elif_clause_kind |-> NoneOpt, elif_condition_field |-> NoneOpt,
      elif_body_field |-> NoneOpt,
      else_clause_kind |-> NoneOpt, else_body_field |-> NoneOpt,
      for_kinds |-> {"for_statement", "for_in_statement", "for_of_statement"},
      while_kinds |-> {"while_statement", "do_statement"},
      loop_body_field |-> Some("body"), while_condition_field |-> Some("condition"),
      match_kind |-> NoneOpt, match_value_field |-> NoneOpt, match_body_field |-> NoneOpt,
      match_arm_kind |-> NoneOpt, match_pattern_kind |-> NoneOpt,
      test_mod_kind |-> NoneOpt, test_mod_name_field |-> "", test_mod_names |-> {},
      builtins |-> TYPESCRIPT_BUILTINS, comment_kind |-> Some("comment") ]

\* The walker-based Rust front end: the node and field names are those the
\* WalkerConfig comments and the Rust tests name (function_item, scoped_identifier,
\* match_block arms, mod_item with tests/test, line_comment).
RUST_CONFIG ==
    [ function_kinds |-> {"function_item"}, function_name_field |-> "name",
      anon_function_kinds |-> {}, anon_parent_kinds |-> {}, anon_parent_name_field |-> "name",
      call_kind |-> "call_expression", call_function_field |-> "function",
      method_receiver_kind |-> "field_expression", method_name_field |-> "field",
      path_call_kind |-> Some("scoped_identifier"), path_name_field |-> Some("name"),
      if_kind |-> Some("if_expression"), if_condition_field |-> Some("condition"),
      if_then_field |-> Some("consequence"), if_else_field |-> Some("alternative"),
      elif_clause_kind |-> NoneOpt, elif_condition_field |-> NoneOpt,
      elif_body_field |-> NoneOpt,
      else_clause_kind |-> NoneOpt, else_body_field |-> NoneOpt,
      for_kinds |-> {"for_expression"}, while_kinds |-> {"while_expression", "loop_expression"},
      loop_body_field |-> Some("body"), while_condition_field |-> Some("condition"),
      match_kind |-> Some("match_expression"), match_value_field |-> Some("value"),
      match_body_field |-> Some("body"),
      match_arm_kind |-> Some("match_arm"), match_pattern_kind |-> Some("match_pattern"),
      test_mod_kind |-> Some("mod_item"), test_mod_name_field |-> "name",
      test_mod_names |-> {<<"tests">>, <<"test">>},
      builtins |-> RUST_BUILTINS, comment_kind |-> Some("line_comment") ]

parse_with_lines_despite_errors(cfg, content) == walk_tree(cfg, content.tree)

\* parse_with_lines: a tree with structural errors gives an empty graph and line map.
parse_with_lines(cfg, content) ==
    IF content.has_error THEN [graph |-> EmptyMap, lines |-> EmptyMap]
    ELSE walk_tree(cfg, content.tree)

transparent_but_if(cfg) ==
    [cfg EXCEPT !.for_kinds = {}, !.while_kinds = {}, !.match_kind = NoneOpt]

\* suppress_decisions: if, loop and match nodes are no longer recognised, so
\* the walk visits their children like those of any other node.
transparent(cfg) ==
    [cfg EXCEPT !.if_kind = NoneOpt, !.for_kinds = {}, !.while_kinds = {},
                !.match_kind = NoneOpt]

\* walk_tree(config, root, code, suppress_decisions)
walk_tree_with(cfg, tree, suppress_decisions) ==
    walk_tree(IF suppress_decisions THEN transparent(cfg) ELSE cfg, tree)

\* parse_with_lines(code, no_flow) of the walker-based front ends.
parse_with_lines_flag(cfg, content, no_flow) ==
    IF content.has_error THEN [graph |-> EmptyMap, lines |-> EmptyMap]
    ELSE walk_tree_with(cfg, content.tree, no_flow)

-----------------------------------------------------------------------------
(* CrawlerRouter::crawl                                                     *)

\* Tokens that open an extension ("." and the letters after it).
DotTokens == {".rs", ".RS", ".py", ".ts", ".tsx", ".txt", ".test", ".spec"}

to_lowercase(tok) == IF tok = ".RS" THEN ".rs" ELSE tok

\* path.extension(): the part of the file name after its last dot, "" when there is none.
extension(file) ==
    IF file # <<>> /\ file[Len(file)] \in DotTokens /\ Len(file) >= 2
          /\ file[Len(file) - 1] # "/"
    THEN file[Len(file)] ELSE ""

\* The parser the extension selects; NoneOpt is the `_ => continue` arm.
parser_for(ext) ==
    IF ext = ".rs" THEN Some(RUST_CONFIG)
    ELSE IF ext = ".py" THEN Some(PYTHON_CONFIG)
    ELSE IF ext \in {".ts", ".tsx"} THEN Some(TYPESCRIPT_CONFIG)
    ELSE NoneOpt

\* rel.replace('\\', "/")
rel_norm_of(rel) == [i \in DOMAIN rel |-> IF rel[i] = "\\" THEN "/" ELSE rel[i]]

\* path.file_stem(): the last component without its extension.
file_stem(file) ==
    LET seps  == {i \in DOMAIN file : file[i] \in {"/", "\\"}}
        first == IF seps = {} THEN 1 ELSE 1 + CHOOSE i \in seps : \A j \in seps : j <= i
        last  == IF extension(file) = "" THEN Len(file) ELSE Len(file) - 1
    IN  SubSeq(file, first, last)

\* Test directories (tests/, test/) and test-named files are skipped.
is_test_path(rel, file) ==
    LET rel_norm == rel_norm_of(rel)
        stem     == file_stem(file)
        dotted(w) == \E i \in 1..(Len(rel_norm) - 1) :
                        rel_norm[i] = w /\ rel_norm[i + 1] \in DotTokens
    IN  \/ StartsWith(rel_norm, <<"tests", "/">>)
        \/ ContainsSeq(rel_norm, <<"/", "tests", "/">>)
        \/ StartsWith(rel_norm, <<"test", "/">>)
        \/ ContainsSeq(rel_norm, <<"/", "test", "/">>)
        \/ (stem # <<>> /\ stem[1] = "test_")
        \/ (stem # <<>> /\ stem[Len(stem)] = "_test")
        \/ dotted(".test")
        \/ dotted(".spec")

root_exists(r) == r.kind # "absent"

root_is_dir(r) == r.kind = "dir"

invalid_root_exists_only(r) == ~root_exists(r)

\* if !root_path.exists() || !root_path.is_dir() { return empty }
invalid_root(r) == ~root_exists(r) \/ ~root_is_dir(r)

\* WalkDir::new(root): the files under a directory, the root itself when it is a
\* file, nothing (an error entry, filtered by e.ok()) when it does not exist.
WalkDir(r) == IF root_exists(r) THEN DOMAIN r.files ELSE {}

abs_path(r, rel) == IF rel = <<>> THEN r.name ELSE r.name \o <<"/">> \o rel

is_decision(id) == Contains(id, SEP)

ns_key_bare(path, bare_key) == bare_key

\* format!("{}::{}", path, bare_key)
ns_key(path, bare_key) == path \o <<"::">> \o bare_key

\* Phase 2: bare name -> the declaring files, in per_file order.
RECURSIVE index_files(_, _, _)
index_files(pf, i, idx) ==
    IF i > Len(pf) THEN idx
    ELSE LET keys == {k \in DOMAIN pf[i].graph : ~is_decision(k)}
             next == [k \in (DOMAIN idx) \cup keys |->
                        IF k \in keys
                        THEN Append(IF k \in DOMAIN idx THEN idx[k] ELSE <<>>, pf[i].rel)
                        ELSE idx[k]]
         IN  index_files(pf, i + 1, next)

build_defined_in_first(pf) ==
    LET all == index_files(pf, 1, EmptyMap)
    IN  [k \in DOMAIN all |-> <<all[k][1]>>]

build_defined_in_last(pf) ==
    LET all == index_files(pf, 1, EmptyMap)
    IN  [k \in DOMAIN all |-> <<all[k][Len(all[k])]>>]

build_defined_in(pf) == index_files(pf, 1, EmptyMap)

\* Phase 3, one edge: a decision target keeps its file; a call is resolved to
\* every declaring file; an undefined name gives no edge.
resolve_edge(path, edge, idx) ==
    IF is_decision(edge.target)
    THEN <<FlowEdge(ns_key(path, edge.target), edge.label)>>
    ELSE IF edge.target \notin DOMAIN idx THEN <<>>
    ELSE [j \in DOMAIN idx[edge.target] |->
            FlowEdge(ns_key(idx[edge.target][j], edge.target), edge.label)]

RECURSIVE flat_map_edges(_, _, _)
flat_map_edges(path, edges, idx) ==
    IF edges = <<>> THEN <<>>
    ELSE resolve_edge(path, Head(edges), idx) \o flat_map_edges(path, Tail(edges), idx)


\* Phase 3 for one file: every key namespaced, every edge resolved.
file_ns_graph(f, idx) ==
    [nk \in {ns_key(f.rel, k) : k \in DOMAIN f.graph} |->
        LET k == CHOOSE k \in DOMAIN f.graph : ns_key(f.rel, k) = nk
        IN  flat_map_edges(f.rel, f.graph[k], idx)]

\* source_map entries of one file: function keys that have a line number.
file_source_map(f) ==
    LET ks == {k \in DOMAIN f.graph : ~is_decision(k) /\ k \in DOMAIN f.lines}
    IN  [nk \in {ns_key(f.rel, k) : k \in ks} |->
            LET k == CHOOSE k \in ks : ns_key(f.rel, k) = nk
            IN  <<f.abs, f.lines[k]>>]

\* graph.insert / source_map.insert over per_file in order: a later insert of
\* the same key replaces the earlier one.
RECURSIVE namespace_files(_, _, _, _)
namespace_files(pf, i, idx, acc) ==
    IF i > Len(pf) THEN acc
    ELSE namespace_files(pf, i + 1, idx,
            [graph      |-> file_ns_graph(pf[i], idx) @@ acc.graph,
             source_map |-> file_source_map(pf[i]) @@ acc.source_map])

\* Pass 1 and 2: drop the edges that point outside the defined function keys.
retain_defined(g) ==
    LET defined == {k \in DOMAIN g : ~is_decision(k)}
        Keep(e) == is_decision(e.target) \/ e.target \in defined
    IN  [k \in DOMAIN g |-> SelectSeq(g[k], Keep)]

\* Pass 3: the decision nodes with no outgoing edges.
empty_decisions(g) == {k \in DOMAIN g : is_decision(k) /\ g[k] = <<>>}

prune_pass_retain_nonempty(g) == [k \in {x \in DOMAIN g : g[x] # <<>>} |-> g[k]]

\* Strips the edges to the empty decision nodes and keeps the nodes.
prune_pass_keep_nodes(g) ==
    LET empty   == empty_decisions(g)
        Keep(e) == e.target \notin empty
    IN  [k \in DOMAIN g |-> SelectSeq(g[k], Keep)]

\* Removes the empty decision nodes and leaves the edges to them.
prune_pass_remove_only(g) == [k \in (DOMAIN g) \ empty_decisions(g) |-> g[k]]

\* One iteration of the pruning loop: remove them and strip the edges to them.
prune_pass(g) ==
    LET empty   == empty_decisions(g)
        Keep(e) == e.target \notin empty
    IN  [k \in (DOMAIN g) \ empty |-> SelectSeq(g[k], Keep)]

prune_once == "done"

\* Where control goes after a pruning pass: back to the head of `loop`.
prune_loop_back == "prune"

-----------------------------------------------------------------------------
(* Actions of crawl *)

\* router.rs 28-36: the root check.
CrawlStart ==
    /\ pc = "start"
    /\ IF invalid_root(root)
       THEN /\ pc' = "done"
            /\ todo' = {}
       ELSE /\ pc' = "phase1"
            /\ todo' = WalkDir(root)
    /\ UNCHANGED <<root, parsed, per_file, defined_in, graph, source_map, passes>>
    /\ UNCHANGED <<levelVars, histVars, appVars>>

\* router.rs 46-90: the body of the WalkDir loop for entry i of directory r:
\* whether a front end was run on it, and per_file afterwards.
visit_entry(r, i, pf) ==
    LET e      == r.files[i]
        file   == abs_path(r, e.rel)
        parser == parser_for(to_lowercase(extension(file)))
    IN  IF parser = NoneOpt \/ ~e.content.readable \/ is_test_path(e.rel, file)
        THEN [parsed |-> FALSE, per_file |-> pf]
        ELSE CHOOSE out \in
                {[parsed   |-> TRUE,
                  per_file |-> IF res.graph # EmptyMap
                               THEN Append(pf, [rel |-> e.rel, abs |-> file,
                                                graph |-> res.graph, lines |-> res.lines])
                               ELSE pf] :
                    res \in {parse_with_lines(parser[1], e.content)}} : TRUE

\* router.rs 41-91: one directory entry of the WalkDir loop.
VisitEntry ==
    /\ pc = "phase1"
    /\ \E i \in todo :
        \E v \in {visit_entry(root, i, per_file)} :
            /\ todo' = todo \ {i}
            /\ parsed' = IF v.parsed THEN parsed \cup {root.files[i].rel} ELSE parsed
            /\ per_file' = v.per_file
    /\ UNCHANGED <<root, pc, defined_in, graph, source_map, passes>>
    /\ UNCHANGED <<levelVars, histVars, appVars>>

\* router.rs 93-103: the name index.
Phase2 ==
    /\ pc = "phase1"
    /\ todo = {}
    /\ defined_in' = build_defined_in(per_file)
    /\ pc' = "phase3"
    /\ UNCHANGED <<root, todo, parsed, per_file, graph, source_map, passes>>
    /\ UNCHANGED <<levelVars, histVars, appVars>>

\* router.rs 105-151: namespacing and cross-file resolution.
Phase3 ==
    /\ pc = "phase3"
    /\ LET r == namespace_files(per_file, 1, defined_in,
                                [graph |-> EmptyMap, source_map |-> EmptyMap])
       IN  /\ graph' = r.graph
           /\ source_map' = r.source_map
    /\ pc' = "post"
    /\ UNCHANGED <<root, todo, parsed, per_file, defined_in, passes>>
    /\ UNCHANGED <<levelVars, histVars, appVars>>

\* router.rs 157-167: passes 1 and 2.
PostProcess ==
    /\ pc = "post"
    /\ graph' = retain_defined(graph)
    /\ pc' = "prune"
    /\ UNCHANGED <<root, todo, parsed, per_file, defined_in, source_map, passes>>
    /\ UNCHANGED <<levelVars, histVars, appVars>>

\* router.rs 170-185: one iteration of the loop that removes something.
PrunePass ==
    /\ pc = "prune"
    /\ empty_decisions(graph) # {}
    /\ graph' = prune_pass(graph)
    /\ passes' = passes + 1
    /\ pc' = prune_loop_back
    /\ UNCHANGED <<root, todo, parsed, per_file, defined_in, source_map>>
    /\ UNCHANGED <<levelVars, histVars, appVars>>

\* router.rs 176-178, 187: the iteration that finds nothing to remove, and the return.
PruneExit ==
    /\ pc = "prune"
    /\ empty_decisions(graph) = {}
    /\ pc' = "done"
    /\ UNCHANGED <<root, todo, parsed, per_file, defined_in, graph, source_map, passes>>
    /\ UNCHANGED <<levelVars, histVars, appVars>>

-----------------------------------------------------------------------------
(* hierarchy_levels (crawler/mod.rs 154-227)                                *)

\* usize::MAX, the "unresolved" sentinel; the largest integer of the model
\* stands for it.
USIZE_MAX == 2147483647

SetMax(S) == CHOOSE x \in S : \A y \in S : y <= x

Elems(seq) == {seq[i] : i \in DOMAIN seq}

is_caller_edge_any(caller, target) == TRUE

\* if edge.target != *caller: self-calls are not callers.
is_caller_edge(caller, target) == target # caller

\* callee_to_callers, built by iterating the graph map in the order `order`.
RECURSIVE push_callers(_, _, _, _)
push_callers(caller, edges, j, acc) ==
    IF j > Len(edges) THEN acc
    ELSE CHOOSE out \in {push_callers(caller, edges, j + 1, a) :
                            a \in {IF is_caller_edge(caller, edges[j].target)
                                   THEN MapPush(acc, edges[j].target, caller)
                                   ELSE acc}} : TRUE

\* Stops after the first entry of the map.
build_callers_first_entry(g, order, i, acc) ==
    IF i > Len(order) THEN acc ELSE push_callers(order[i], g[order[i]], 1, acc)

RECURSIVE build_callers(_, _, _, _)
build_callers(g, order, i, acc) ==
    IF i > Len(order) THEN acc
    ELSE CHOOSE out \in {build_callers(g, order, i + 1, a) :
                            a \in {push_callers(order[i], g[order[i]], 1, acc)}} : TRUE

seed_levels(fns, c2c) ==
    [n \in Elems(fns) |-> IF n \in DOMAIN c2c THEN USIZE_MAX ELSE 0]

max_iterations(fns) == Len(fns) + 2

relax_continues_nobreak(it, fns, ch) == it < max_iterations(fns)

\* for _ in 0..max_iterations { if !changed { break; } ... }
relax_continues(it, fns, ch) == it < max_iterations(fns) /\ ch

\* One relaxation pass over all_fns, in order, updating level in place.
RECURSIVE relax_from(_, _, _, _)
relax_from(fns, c2c, i, acc) ==
    IF i > Len(fns) THEN acc
    ELSE LET name == fns[i]
             known == IF name \in DOMAIN c2c
                      THEN {acc.level[c] : c \in {x \in Elems(c2c[name]) :
                                x \in DOMAIN acc.level /\ acc.level[x] # USIZE_MAX}}
                      ELSE {}
             new_lvl == SetMax(known) + 1
             next == IF known # {} /\ acc.level[name] > new_lvl
                     THEN [level |-> [acc.level EXCEPT ![name] = new_lvl], changed |-> TRUE]
                     ELSE acc
         IN  CHOOSE out \in {relax_from(fns, c2c, i + 1, a) : a \in {next}} : TRUE

\* iteration >= max_iterations && changed
cycle_warning(it, fns, ch) == it >= max_iterations(fns) /\ ch

fill_unresolved_skip(lv) == lv

fill_unresolved_at_max(lv) ==
    LET resolved == {lv[n] : n \in {x \in DOMAIN lv : lv[x] # USIZE_MAX}}
        max_lvl  == IF resolved = {} THEN 0 ELSE SetMax(resolved)
    IN  [n \in DOMAIN lv |-> IF lv[n] = USIZE_MAX THEN max_lvl ELSE lv[n]]

\* Every id still at the sentinel gets max_resolved_depth + 1.
fill_unresolved(lv) ==
    LET resolved == {lv[n] : n \in {x \in DOMAIN lv : lv[x] # USIZE_MAX}}
        max_lvl  == IF resolved = {} THEN 0 ELSE SetMax(resolved)
    IN  [n \in DOMAIN lv |-> IF lv[n] = USIZE_MAX THEN max_lvl + 1 ELSE lv[n]]

Perms(S) == {p \in [1..Cardinality(S) -> S] : \A i, j \in DOMAIN p : i # j => p[i] # p[j]}

\* mod.rs 155-167: the reverse adjacency; a HashMap is iterated in any order.
BuildCallers ==
    /\ lpc = "callers"
    /\ \E order \in Perms(DOMAIN lgraph) :
          callee_to_callers' = build_callers(lgraph, order, 1, EmptyMap)
    /\ lpc' = "seed"
    /\ UNCHANGED <<lgraph, all_fns, level, changed, iteration, warned, unresolved>>
    /\ UNCHANGED <<crawlVars, histVars, appVars>>

\* mod.rs 169-183: the seed levels and the loop variables.
SeedLevels ==
    /\ lpc = "seed"
    /\ level' = seed_levels(all_fns, callee_to_callers)
    /\ changed' = TRUE
    /\ iteration' = 0
    /\ lpc' = "relax"
    /\ UNCHANGED <<lgraph, all_fns, callee_to_callers, warned, unresolved>>
    /\ UNCHANGED <<crawlVars, histVars, appVars>>

\* mod.rs 184-209: one pass of the relaxation loop.
RelaxPass ==
    /\ lpc = "relax"
    /\ relax_continues(iteration, all_fns, changed)
    /\ LET r == relax_from(all_fns, callee_to_callers, 1, [level |-> level, changed |-> FALSE])
       IN  /\ level' = r.level
           /\ changed' = r.changed
    /\ iteration' = iteration + 1
    /\ UNCHANGED <<lgraph, all_fns, lpc, callee_to_callers, warned, unresolved>>
    /\ UNCHANGED <<crawlVars, histVars, appVars>>

\* mod.rs 184-187: the loop ends after max_iterations passes or at the break.
RelaxExit ==
    /\ lpc = "relax"
    /\ ~relax_continues(iteration, all_fns, changed)
    /\ lpc' = "fill"
    /\ UNCHANGED <<lgraph, all_fns, callee_to_callers, level, changed, iteration, warned,
                   unresolved>>
    /\ UNCHANGED <<crawlVars, histVars, appVars>>

\* mod.rs 211-226: the warning, the sentinel replacement and the return.
FillUnresolved ==
    /\ lpc = "fill"
    /\ warned' = cycle_warning(iteration, all_fns, changed)
    /\ unresolved' = {n \in DOMAIN level : level[n] = USIZE_MAX}
    /\ level' = fill_unresolved(level)
    /\ lpc' = "done"
    /\ UNCHANGED <<lgraph, all_fns, callee_to_callers, changed, iteration>>
    /\ UNCHANGED <<crawlVars, histVars, appVars>>

-----------------------------------------------------------------------------
(* The directories crawl is run on: small syntax trees in the shapes the    *)
(* tree-sitter grammars give, one pool per language.                        *)

MaxNest == 2

Ident(t) == MkNode("identifier", t, 0, <<>>)

Block(stmts) == MkNode("block", <<>>, 0, [i \in DOMAIN stmts |-> Child("", stmts[i])])

FnNode(L, name, row, stmts) ==
    MkNode(IF L = "rs" THEN "function_item" ELSE "function_definition", <<>>, row,
           <<Child("name", Ident(name)), Child("body", Block(stmts))>>)

CallNode(L, callee) ==
    MkNode(IF L = "rs" THEN "call_expression" ELSE "call", <<>>, 0,
           <<Child("function", Ident(callee)),
             Child("arguments", MkNode("arguments", <<>>, 0, <<>>))>>)

\* els is NoneOpt or Some(statements of the else branch).
IfNode(L, cond, then, els) ==
    MkNode(IF L = "rs" THEN "if_expression" ELSE "if_statement", <<>>, 0,
           <<Child("condition", Ident(cond)), Child("consequence", Block(then))>>
           \o (IF els = NoneOpt THEN <<>>
               ELSE IF L = "rs"
               THEN <<Child("alternative",
                            MkNode("else_clause", <<>>, 0, <<Child("", Block(els[1]))>>))>>
               ELSE <<Child("",
                            MkNode("else_clause", <<>>, 0, <<Child("body", Block(els[1]))>>))>>))

\* A for loop over `xs`; els is NoneOpt or Some(statements of the loop's else clause).
ForNode(L, body, els) ==
    MkNode(IF L = "rs" THEN "for_expression" ELSE "for_statement", <<>>, 0,
           <<Child(IF L = "rs" THEN "pattern" ELSE "left", Ident(<<"x">>)),
             Child(IF L = "rs" THEN "value" ELSE "right", Ident(<<"xs">>)),
             Child("body", Block(body))>>
           \o (IF els = NoneOpt THEN <<>>
               ELSE <<Child("alternative",
                            MkNode("else_clause", <<>>, 0, <<Child("body", Block(els[1]))>>))>>))

\* A comment with the given text, as a named child of its parent.
CommentNode(L, text) ==
    MkNode(IF L = "rs" THEN "line_comment" ELSE "comment", text, 0, <<>>)

ModNode(name, items) ==
    MkNode("mod_item", <<>>, 0,
           <<Child("name", Ident(name)),
             Child("body", MkNode("declaration_list", <<>>, 0,
                                  [i \in DOMAIN items |-> Child("", items[i])]))>>)

\* A match on `value`; each arm is [pat |-> NoneOpt or Some(pattern text),
\* value |-> the arm's expression].
MatchNode(value, arms) ==
    MkNode("match_expression", <<>>, 0,
           <<Child("value", Ident(value)),
             Child("body", MkNode("match_block", <<>>, 0,
                [i \in DOMAIN arms |->
                    Child("", MkNode("match_arm", <<>>, 0,
                        (IF arms[i].pat = NoneOpt THEN <<>>
                         ELSE <<Child("pattern",
                                      MkNode("match_pattern", arms[i].pat[1], 0, <<>>))>>)
                        \o <<Child("value", arms[i].value)>>))]))>>)

FileTree(L, items) ==
    MkNode(IF L = "rs" THEN "source_file" ELSE "module", <<>>, 0,
           [i \in DOMAIN items |-> Child("", items[i])])

\* d nested ifs without else around the statements leaf.
RECURSIVE Nest(_, _, _)
Nest(L, d, leaf) ==
    IF d = 0 THEN leaf ELSE <<IfNode(L, <<"c">>, Nest(L, d - 1, leaf), NoneOpt)>>

Callees == {<<"f">>, <<"g">>, <<"x">>}

Bodies(L) ==
    {<<>>, <<CallNode(L, <<"g">>), CallNode(L, <<"g">>)>>, <<CallNode(L, <<"len">>)>>}
    \cup {<<CallNode(L, c)>> : c \in Callees}
    \cup {<<IfNode(L, <<"c">>, <<CallNode(L, cs[1])>>, Some(<<CallNode(L, cs[2])>>))>> :
            cs \in {<<<<"g">>, <<"x">>>>, <<<<"f">>, <<"g">>>>, <<<<"len">>, <<"g">>>>}}
    \cup {Nest(L, d, leaf) : d \in 1..MaxNest,
            leaf \in {<<>>, <<CallNode(L, <<"x">>)>>, <<CallNode(L, <<"g">>)>>}}

\* Bodies with a call in a loop body, in a loop inside a branch, in a function
\* declared inside a branch and, for Rust, in the arms of a match.
BranchBodies(L) ==
    {<<ForNode(L, <<CallNode(L, <<"g">>)>>, NoneOpt)>>,
     <<IfNode(L, <<"c">>, <<ForNode(L, <<CallNode(L, <<"x">>)>>, NoneOpt),
                            CallNode(L, <<"g">>),
                            FnNode(L, <<"h">>, 2, <<CallNode(L, <<"g">>)>>)>>, NoneOpt)>>}
    \cup (IF L = "rs"
          THEN {<<CallNode(L, <<"f">>),
                  MatchNode(<<"x">>, <<[pat |-> Some(<<"1">>), value |-> CallNode(L, <<"g">>)],
                                       [pat |-> NoneOpt, value |-> CallNode(L, <<"x">>)]>>)>>}
          ELSE {})

Programs(L) ==
    {<<FnNode(L, n, 0, b)>> : n \in {<<"f">>, <<"g">>}, b \in Bodies(L)}
    \cup {<<FnNode(L, <<"f">>, 0, b)>> : b \in BranchBodies(L)}
    \cup {<<IfNode(L, <<"c">>, <<CallNode(L, <<"f">>)>>, NoneOpt)>>}
    \cup {<<CommentNode(L, <<"//", " ", "@flow">>),
             FnNode(L, <<"f">>, 1, <<CallNode(L, <<"len">>)>>)>>}
    \cup {<<FnNode(L, <<"f">>, 0, <<CallNode(L, <<"len">>)>>),
             CommentNode(L, t), FnNode(L, <<"len">>, 2, <<>>)>> :
                t \in {<<"//", " ", "@flow">>, <<"//", " ", "note">>}}
    \cup (IF L = "rs"
          THEN {<<FnNode(L, <<"f">>, 0, b), FnNode(L, <<"g">>, 1, <<>>)>> : b \in Bodies(L)}
               \cup {<<FnNode(L, <<"f">>, 0, <<CallNode(L, <<"g">>)>>),
                       ModNode(m, <<FnNode(L, <<"g">>, 2, b)>>)>> :
                         m \in {<<"tests">>, <<"util">>},
                         b \in {<<>>, <<IfNode(L, <<"c">>, <<CallNode(L, <<"x">>)>>, NoneOpt)>>}}
          ELSE {<<ForNode(L, <<FnNode(L, <<"g">>, 1, <<>>)>>,
                          Some(<<FnNode(L, <<"h">>, 3, <<>>)>>))>>})

Contents(L) ==
    {[readable |-> TRUE, has_error |-> FALSE, tree |-> FileTree(L, p)] : p \in Programs(L)}
    \cup {[readable |-> rd, has_error |-> rd,
           tree |-> FileTree(L, <<FnNode(L, <<"f">>, 0, <<>>)>>)] : rd \in BOOLEAN}

NoFile == [readable |-> FALSE, has_error |-> FALSE, tree |-> FileTree("rs", <<>>)]

OneFn(L) == [readable |-> TRUE, has_error |-> FALSE,
             tree |-> FileTree(L, <<FnNode(L, <<"g">>, 0, <<>>)>>)]

Present(e) == e.content # NoFile

\* One Rust file, one Python file and at most one more entry: a file under
\* tests/ (skipped by the path filter) or a file with no front end.
Roots ==
    {[kind |-> "dir", name |-> <<"/", "r">>,
      files |-> SelectSeq(<<[rel |-> <<"a", ".rs">>, content |-> c1],
                            [rel |-> <<"b", ".py">>, content |-> c2]>> \o c3, Present)] :
        c1 \in Contents("rs") \cup {NoFile}, c2 \in Contents("py") \cup {NoFile},
        c3 \in {<<>>, <<[rel |-> <<"tests", "/", "t", ".rs">>, content |-> OneFn("rs")]>>,
                <<[rel |-> <<"n", ".txt">>, content |-> OneFn("py")]>>}}
    \cup {[kind |-> "absent", name |-> n, files |-> <<>>] :
            n \in {<<>>, <<"/", "nonexistent">>}}
    \cup {[kind |-> "file", name |-> <<"/", "r", ".rs">>,
           files |-> <<[rel |-> <<>>, content |-> OneFn("rs")]>>]}

\* Duration::from_millis(500): the debounce window of watch_trigger_system.
DebounceMs == 500

\* A node the user placed on the canvas before any crawl.
ManualNode ==
    [id |-> <<"note">>, display |-> <<"note">>, decision |-> FALSE, level |-> 0,
     location |-> NoneOpt]

\* WatchState::default(), an empty message queue, and a canvas with one node.
AppIdle ==
    /\ requests = <<>>
    /\ watch = [watcher |-> NoneOpt, rx |-> NoneOpt, watch_path |-> NoneOpt,
                no_flow |-> FALSE, last_event |-> NoneOpt]
    /\ canvas = [nodes |-> {ManualNode}, edges |-> {}]
    /\ spatial_index = {ManualNode.id}
    /\ status = <<>>
    /\ burst = NoneOpt

\* find_traced_paths has not been called.
TraceIdle ==
    /\ trace_edges = <<>>
    /\ trace_source = <<>>
    /\ trace_sink = <<>>
    /\ tpc = "idle"
    /\ trace_adj = <<>>
    /\ trace_result = {}

LevelsIdle ==
    /\ lgraph = EmptyMap
    /\ all_fns = <<>>
    /\ lpc = "idle"
    /\ callee_to_callers = EmptyMap
    /\ level = EmptyMap
    /\ changed = TRUE
    /\ iteration = 0
    /\ warned = FALSE
    /\ unresolved = {}

Init ==
    /\ root \in Roots
    /\ pc = "start"
    /\ todo = {}
    /\ parsed = {}
    /\ per_file = <<>>
    /\ defined_in = EmptyMap
    /\ graph = EmptyMap
    /\ source_map = EmptyMap
    /\ passes = 0
    /\ first_run = NoneOpt
    /\ disk_version = 0
    /\ shown_version = 0
    /\ handling = NoneOpt
    /\ TraceIdle
    /\ LevelsIdle
    /\ AppIdle

Next ==
    \/ CrawlStart
    \/ VisitEntry
    \/ Phase2
    \/ Phase3
    \/ PostProcess
    \/ PrunePass
    \/ PruneExit

Spec == Init /\ [][Next]_vars

\* crawl is called a second time on the same, unchanged directory: the first
\* call's return value is kept for comparison and the locals start afresh.
Recrawl ==
    /\ pc = "done"
    /\ first_run = NoneOpt
    /\ first_run' = Some([graph |-> graph, source_map |-> source_map])
    /\ pc' = "start"
    /\ todo' = {}
    /\ parsed' = {}
    /\ per_file' = <<>>
    /\ defined_in' = EmptyMap
    /\ graph' = EmptyMap
    /\ source_map' = EmptyMap
    /\ passes' = 0
    /\ UNCHANGED <<root, disk_version, shown_version, handling, traceVars>>
    /\ UNCHANGED <<levelVars, appVars>>

NextTwice ==
    \/ Next
    \/ Recrawl

SpecTwice == Init /\ [][NextTwice]_vars

-----------------------------------------------------------------------------
(* The graphs hierarchy_levels is run on: every graph over LNodes with at   *)
(* most MaxEdges edges, with all_fns the keys in any order (the caller      *)
(* passes the sorted keys; the ids are arbitrary strings).                  *)

MaxEdges == 3

LNodes == {<<"a">>, <<"b">>, <<"c">>}

TargetSeqs == UNION {[1..k -> LNodes] : k \in 0..MaxEdges}

RECURSIVE SumLen(_, _)
SumLen(g, S) ==
    IF S = {} THEN 0
    ELSE LET n == CHOOSE x \in S : TRUE IN Len(g[n]) + SumLen(g, S \ {n})

LGraphs ==
    {[n \in LNodes |-> [j \in DOMAIN t[n] |-> FlowEdge(t[n][j], NoneOpt)]] :
        t \in {u \in [LNodes -> TargetSeqs] : SumLen(u, LNodes) <= MaxEdges}}

\* A wider pool: four ids, so that a chain below a root and a cycle that no
\* root leads into fit in one graph.
WideNodes == LNodes \cup {<<"d">>}

\* The graph a sequence of (caller, target) pairs spells out, each caller's
\* edges in the order of the sequence.
GraphOfEdges(es) ==
    [n \in WideNodes |->
        LET From(e) == e[1] = n
            mine    == SelectSeq(es, From)
        IN  [j \in DOMAIN mine |-> FlowEdge(mine[j][2], NoneOpt)]]

WideGraphs ==
    {GraphOfEdges(es) : es \in UNION {[1..k -> WideNodes \X WideNodes] : k \in 0..MaxEdges}}

\* No source file has changed and no request is being handled.
RaceIdle ==
    /\ disk_version = 0
    /\ shown_version = 0
    /\ handling = NoneOpt

CrawlIdle ==
    /\ RaceIdle
    /\ root = [kind |-> "absent", name |-> <<>>, files |-> <<>>]
    /\ pc = "idle"
    /\ todo = {}
    /\ parsed = {}
    /\ per_file = <<>>
    /\ defined_in = EmptyMap
    /\ graph = EmptyMap
    /\ source_map = EmptyMap
    /\ passes = 0
    /\ first_run = NoneOpt

InitLevels ==
    /\ lgraph \in LGraphs
    /\ all_fns \in Perms(LNodes)
    /\ lpc = "callers"
    /\ callee_to_callers = EmptyMap
    /\ level = EmptyMap
    /\ changed = TRUE
    /\ iteration = 0
    /\ warned = FALSE
    /\ unresolved = {}
    /\ CrawlIdle
    /\ TraceIdle
    /\ AppIdle

NextLevels ==
    \/ BuildCallers
    \/ SeedLevels
    \/ RelaxPass
    \/ RelaxExit
    \/ FillUnresolved

SpecLevels == InitLevels /\ [][NextLevels]_vars

InitLevelsWide ==
    /\ lgraph \in WideGraphs
    /\ all_fns = <<<<"a">>, <<"b">>, <<"c">>, <<"d">>>>
    /\ lpc = "callers"
    /\ callee_to_callers = EmptyMap
    /\ level = EmptyMap
    /\ changed = TRUE
    /\ iteration = 0
    /\ warned = FALSE
    /\ unresolved = {}
    /\ CrawlIdle
    /\ TraceIdle
    /\ AppIdle

\* handle_crawl_requests passes the sorted keys of the graph as all_fns.
SpecLevelsWide == InitLevelsWide /\ [][NextLevels]_vars

\* hierarchy_levels is straight-line sequential code: it keeps running.
SpecLevelsFair == SpecLevels /\ WF_vars(NextLevels)

-----------------------------------------------------------------------------
(* The crawl systems of the application (crawler/mod.rs): the requests the  *)
(* user and the watcher write, the handler that crawls and rebuilds the     *)
(* canvas, and the debounced watcher.                                       *)

\* Milliseconds of wall-clock time between two observations of the clock.
TickMs == 250

\* CrawlRequest messages written and not yet read by the handler.
MaxQueue == 2

\* Notifications delivered to the channel and not yet drained.
MaxChan == 2

\* The file system the application runs on: two source directories, a
\* directory without source files, a regular file, and nothing else.
DirA ==
    [kind |-> "dir", name |-> <<"/", "a">>,
     files |-> <<[rel |-> <<"a", ".rs">>,
                  content |-> [readable |-> TRUE, has_error |-> FALSE,
                               tree |-> FileTree("rs",
                                  <<FnNode("rs", <<"f">>, 0,
                                       <<IfNode("rs", <<"c">>, <<CallNode("rs", <<"g">>)>>,
                                                NoneOpt),
                                         CallNode("rs", <<"g">>)>>),
                                    FnNode("rs", <<"g">>, 4, <<>>)>>)]]>>]

DirB ==
    [kind |-> "dir", name |-> <<"/", "b">>,
     files |-> <<[rel |-> <<"b", ".py">>, content |-> OneFn("py")]>>]

DirE ==
    [kind |-> "dir", name |-> <<"/", "e">>,
     files |-> <<[rel |-> <<"n", ".txt">>, content |-> OneFn("py")]>>]

FileF ==
    [kind |-> "file", name |-> <<"/", "f", ".rs">>,
     files |-> <<[rel |-> <<>>, content |-> OneFn("rs")]>>]

\* Path::new(path).canonicalize().unwrap_or(path): what is at an absolute path.
Disk(path) ==
    IF \E d \in {DirA, DirB, DirE, FileF} : d.name = path
    THEN CHOOSE d \in {DirA, DirB, DirE, FileF} : d.name = path
    ELSE [kind |-> "absent", name |-> path, files |-> <<>>]

World == {DirA, DirB, DirE, FileF}

CrawlRequest(path, no_flow) == [path |-> path, no_flow |-> no_flow]

\* The requests the user writes: the entries above, a missing path, a path
\* with surrounding blanks and a blank path; one of them with no_flow set.
UserRequests ==
    {CrawlRequest(p, FALSE) :
        p \in {<<" ", "/", "b", " ">>, <<"/", "e">>, <<"/", "f", ".rs">>, <<"/", "x">>, <<" ">>}}
    \cup {CrawlRequest(<<"/", "a">>, TRUE)}

\* str::trim: leading and trailing white space removed.
RECURSIVE trim(_)
trim(s) ==
    IF s = <<>> THEN s
    ELSE IF Head(s) = " " THEN trim(Tail(s))
    ELSE IF s[Len(s)] = " " THEN trim(SubSeq(s, 1, Len(s) - 1))
    ELSE s

\* router.rs 46-90 with the request's no_flow handed to the front end.
visit_entry_with(r, i, pf, no_flow) ==
    LET e      == r.files[i]
        file   == abs_path(r, e.rel)
        parser == parser_for(to_lowercase(extension(file)))
    IN  IF parser = NoneOpt \/ ~e.content.readable \/ is_test_path(e.rel, file)
        THEN pf
        ELSE CHOOSE out \in
                {IF res.graph # EmptyMap
                 THEN Append(pf, [rel |-> e.rel, abs |-> file,
                                  graph |-> res.graph, lines |-> res.lines])
                 ELSE pf :
                    res \in {parse_with_lines_flag(parser[1], e.content, no_flow)}} : TRUE

\* router.rs 41-91: the WalkDir loop, entries in directory order.
RECURSIVE parse_entries(_, _, _, _)
parse_entries(r, i, pf, no_flow) ==
    IF i > Len(r.files) THEN pf
    ELSE CHOOSE out \in {parse_entries(r, i + 1, pf1, no_flow) :
                            pf1 \in {visit_entry_with(r, i, pf, no_flow)}} : TRUE

\* router.rs 169-185: the pruning loop, run until a pass removes nothing.
RECURSIVE prune_loop(_)
prune_loop(g) == IF empty_decisions(g) = {} THEN g ELSE prune_loop(prune_pass(g))

\* CrawlerRouter::crawl(root, no_flow) as one call: (graph, source_map).
crawl(r, no_flow) ==
    IF invalid_root(r) THEN [graph |-> EmptyMap, source_map |-> EmptyMap]
    ELSE CHOOSE out \in
            {[graph |-> prune_loop(retain_defined(ns.graph)), source_map |-> ns.source_map] :
                ns \in {namespace_files(pf, 1, build_defined_in(pf),
                                        [graph |-> EmptyMap, source_map |-> EmptyMap]) :
                           pf \in {parse_entries(r, 1, <<>>, no_flow)}}} : TRUE

\* The tokens of the ids, in the byte order of their first characters.
ByteOrder ==
    <<SEP, " ", ".py", ".rs", "/", "0", "1", "2", "::", "_decision_", "a", "b", "c",
      "f", "g", "if">>

Rank(tok) == CHOOSE i \in DOMAIN ByteOrder : ByteOrder[i] = tok

\* String's Ord: lexicographic, a proper prefix first.
RECURSIVE str_less(_, _)
str_less(x, y) ==
    IF y = <<>> THEN FALSE
    ELSE IF x = <<>> THEN TRUE
    ELSE IF Head(x) = Head(y) THEN str_less(Tail(x), Tail(y))
    ELSE Rank(Head(x)) < Rank(Head(y))

\* sorted.sort(): the ids of S in ascending order.
RECURSIVE sorted(_)
sorted(S) ==
    IF S = {} THEN <<>>
    ELSE LET m == CHOOSE x \in S : \A y \in S \ {x} : str_less(x, y)
         IN  <<m>> \o sorted(S \ {m})

\* mod.rs 184-209: the relaxation loop.
RECURSIVE relax_loop(_, _, _, _, _)
relax_loop(fns, c2c, lv, ch, it) ==
    IF ~relax_continues(it, fns, ch) THEN lv
    ELSE CHOOSE out \in {relax_loop(fns, c2c, r.level, r.changed, it + 1) :
                            r \in {relax_from(fns, c2c, 1, [level |-> lv, changed |-> FALSE])}} :
                TRUE

\* hierarchy_levels as one call.  The order in which the graph map is iterated
\* only orders the callers inside callee_to_callers, which relax_from reads
\* as a set.
hierarchy_levels(g, fns) ==
    CHOOSE out \in {fill_unresolved(lv) :
                      lv \in UNION {{relax_loop(fs, c2c, seed, TRUE, 0) :
                                       seed \in {seed_levels(fs, c2c)}} :
                                    fs \in {fns},
                                    c2c \in {build_callers(g, sorted(DOMAIN g), 1, EmptyMap)}}} :
        TRUE

\* s.splitn(2, sep).nth(1): what follows the first sep, if there is one.
after_first(s, sep) ==
    LET at == {i \in DOMAIN s : s[i] = sep}
    IN  IF at = {} THEN NoneOpt
        ELSE Some(SubSeq(s, 1 + (CHOOSE i \in at : \A j \in at : i <= j), Len(s)))

unwrap_or(opt, dflt) == IF opt = NoneOpt THEN dflt ELSE opt[1]

\* mod.rs 318-319: the text shown on a node.
display_name(name) ==
    LET after_ns == unwrap_or(after_first(name, "::"), name)
    IN  unwrap_or(after_first(after_ns, SEP), after_ns)

\* mod.rs 296-349: one CanvasNode per id, with its row and, on function
\* nodes the source map knows, its SourceLocation.
spawn_nodes(g, source_map_, levels) ==
    {[id       |-> name,
      display  |-> display_name(name),
      decision |-> is_decision(name),
      level    |-> IF name \in DOMAIN levels THEN levels[name] ELSE 0,
      location |-> IF ~is_decision(name) /\ name \in DOMAIN source_map_
                   THEN Some(source_map_[name]) ELSE NoneOpt] : name \in DOMAIN g}

\* The (caller, position) pairs of the edges of a graph.
edge_slots(g) == UNION {{<<c, k>> : k \in DOMAIN g[c]} : c \in DOMAIN g}

\* mod.rs 352-370: one Edge per graph edge whose two ends were spawned and differ.
spawn_edges(g) ==
    {[source |-> ck[1], target |-> g[ck[1]][ck[2]].target,
      label |-> g[ck[1]][ck[2]].label, nth |-> ck[2]] :
        ck \in {x \in edge_slots(g) : /\ g[x[1]][x[2]].target \in DOMAIN g
                                      /\ g[x[1]][x[2]].target # x[1]}}

\* mod.rs 262, 283-370 for every path that names an entry of the file system:
\* the crawl, the levels of the sorted ids, and the entities to spawn.
crawl_of ==
    [p \in {d.name : d \in World} |-> [no_flow \in BOOLEAN |->
        CHOOSE out \in UNION {{[graph |-> res.graph,
                                 nodes |-> spawn_nodes(res.graph, res.source_map, levels),
                                 edges |-> spawn_edges(res.graph)] :
                                   levels \in {hierarchy_levels(res.graph,
                                                                sorted(DOMAIN res.graph))}} :
                               res \in {crawl(Disk(p), no_flow)}} : TRUE]]

\* The debounce test: last.elapsed() >= Duration::from_millis(500).
debounce_elapsed_always(age) == TRUE

debounce_elapsed(age) == age >= DebounceMs

no_functions_found_never(g) == FALSE

\* graph.is_empty()
no_functions_found(g) == g = EmptyMap

\* mod.rs 385-410: the watch state after a successful crawl of abs.  The
\* watcher and the receiver are stored only when the watcher was created
\* and watch() succeeded (created).
restart_watcher(w, ev, abs, created) ==
    LET w1 == [w EXCEPT !.no_flow = ev.no_flow,
                        !.watch_path = Some(abs),
                        !.last_event = NoneOpt]
    IN  IF created
        THEN [w1 EXCEPT !.watcher = Some(abs),
                        !.rx = Some([root |-> abs, events |-> <<>>])]
        ELSE w1

\* mod.rs 241-410: the body of the loop for one request.  Commands are
\* deferred: the entities the queries return are those that existed when the
\* system started (despawned records that they were all queued for removal),
\* and the spawned entities of every request of the run are added afterwards.
handle_request(st, ev, created) ==
    LET path     == trim(ev.path)
        abs_root == Disk(path)
    IN  IF path = <<>> THEN st
        ELSE IF invalid_root(abs_root)
        THEN [st EXCEPT !.status = <<"crawl: path not found: ">> \o path]
        ELSE CHOOSE out \in
                {IF no_functions_found(res.graph)
                 THEN [st EXCEPT !.status = <<"crawl: no functions found in ">> \o path]
                 ELSE [despawned     |-> TRUE,
                       nodes         |-> st.nodes \cup res.nodes,
                       edges         |-> st.edges \cup res.edges,
                       spatial_index |-> {},
                       status        |-> <<"Crawled: ", ToString(Cardinality(DOMAIN res.graph)),
                                           " nodes, ", ToString(Cardinality(res.edges)),
                                           " edges">>,
                       watch         |-> restart_watcher(st.watch, ev, abs_root.name,
                                                         created[1]),
                       crawled       |-> st.crawled + 1] :
                    res \in {crawl_of[path][ev.no_flow]}} : TRUE

\* for ev in crawl_events.read(): every unread request, oldest first.
RECURSIVE handle_all(_, _, _)
handle_all(st, evs, created) ==
    IF evs = <<>> THEN st
    ELSE CHOOSE out \in {handle_all(st1, Tail(evs),
                                    IF st1.crawled > st.crawled THEN Tail(created)
                                    ELSE created) :
                            st1 \in {handle_request(st, Head(evs), created)}} : TRUE

\* A notification's paths hold a source file.
is_source(ev) ==
    \E i \in DOMAIN ev.paths :
        extension(ev.paths[i]) \in {".rs", ".py", ".ts", ".tsx"}

\* What the watcher thread can send: Ok(event) for a source file, Ok(event)
\* for another file, Err(error).
Notifications ==
    {[ok |-> TRUE, paths |-> <<<<"m", ".rs">>>>],
     [ok |-> TRUE, paths |-> <<<<"n", ".txt">>, <<"target">>>>],
     [ok |-> FALSE, paths |-> <<>>]}

\* mod.rs 61-80: the try_recv loop.  It stops at an empty channel and at the
\* first Err item, which it consumes.
RECURSIVE drain(_, _)
drain(events, found) ==
    IF events = <<>> THEN [found |-> found, rest |-> <<>>]
    ELSE IF ~Head(events).ok THEN [found |-> found, rest |-> Tail(events)]
    ELSE drain(Tail(events), found \/ is_source(Head(events)))

Saturate(ms) == IF ms >= DebounceMs THEN DebounceMs ELSE ms

-----------------------------------------------------------------------------
(* Actions of the application *)

\* The command palette writes a CrawlRequest.
UserRequest ==
    /\ Len(requests) < MaxQueue
    /\ \E ev \in UserRequests : requests' = Append(requests, ev)
    /\ UNCHANGED <<watch, canvas, spatial_index, status, burst>>
    /\ UNCHANGED <<crawlVars, levelVars, histVars>>

\* The watcher thread sends a notification into the channel it was created
\* with (move |res| { let _ = tx.send(res); }).
FileChange ==
    /\ watch.watcher # NoneOpt
    /\ watch.rx # NoneOpt
    /\ Len(watch.rx[1].events) < MaxChan
    /\ \E n \in Notifications :
          watch' = [watch EXCEPT !.rx = Some([watch.rx[1] EXCEPT !.events = Append(@, n)])]
    /\ UNCHANGED <<requests, canvas, spatial_index, status, burst>>
    /\ UNCHANGED <<crawlVars, levelVars, histVars>>

\* TickMs of wall-clock time pass: Instant::elapsed() of the pending
\* timestamp grows.  Ages are kept up to the debounce window.
Tick ==
    /\ \/ (burst # NoneOpt /\ burst[1] < DebounceMs)
       \/ (watch.last_event # NoneOpt /\ watch.last_event[1] < DebounceMs)
    /\ burst' = IF burst = NoneOpt THEN burst ELSE Some(Saturate(burst[1] + TickMs))
    /\ watch' = IF watch.last_event = NoneOpt THEN watch
                ELSE [watch EXCEPT !.last_event = Some(Saturate(@[1] + TickMs))]
    /\ UNCHANGED <<requests, canvas, spatial_index, status>>
    /\ UNCHANGED <<crawlVars, levelVars, histVars>>

\* mod.rs 55-104: watch_trigger_system, one run.
WatchTrigger ==
    /\ Len(requests) < MaxQueue
    /\ LET d     == IF watch.rx = NoneOpt THEN [found |-> FALSE, rest |-> <<>>]
                    ELSE drain(watch.rx[1].events, FALSE)
           rx1   == IF watch.rx = NoneOpt THEN NoneOpt
                    ELSE Some([watch.rx[1] EXCEPT !.events = d.rest])
           le1   == IF d.found THEN Some(0) ELSE watch.last_event
           fire  == le1 # NoneOpt /\ debounce_elapsed(le1[1])
           write == fire /\ watch.watch_path # NoneOpt
       IN  /\ watch' = [watch EXCEPT !.rx = rx1,
                                     !.last_event = IF fire THEN NoneOpt ELSE le1]
           /\ requests' = IF write
                          THEN Append(requests, CrawlRequest(watch.watch_path[1], watch.no_flow))
                          ELSE requests
           /\ burst' = IF write THEN NoneOpt ELSE IF d.found THEN Some(0) ELSE burst
    /\ UNCHANGED <<canvas, spatial_index, status>>
    /\ UNCHANGED <<crawlVars, levelVars, histVars>>

\* mod.rs 230-412: handle_crawl_requests, one run that reads every unread
\* request.  Creating the watcher and watching the root can each fail.
HandleCrawlRequests ==
    /\ requests # <<>>
    /\ \E created \in [1..Len(requests) -> BOOLEAN] :
          \E st \in {handle_all([despawned |-> FALSE, nodes |-> {}, edges |-> {},
                                  spatial_index |-> spatial_index, status |-> status,
                                  watch |-> watch, crawled |-> 0],
                                 requests, created)} :
              /\ canvas' = IF st.despawned
                           THEN [nodes |-> st.nodes, edges |-> st.edges]
                           ELSE canvas
              /\ spatial_index' = st.spatial_index
              /\ status' = st.status
              /\ watch' = st.watch
              /\ burst' = IF st.crawled > 0 THEN NoneOpt ELSE burst
    /\ requests' = <<>>
    /\ UNCHANGED <<crawlVars, levelVars, histVars>>

\* core/spatial.rs 9-40: update_spatial_index_system and
\* spatial_index_cleanup_system, in PostUpdate: the index follows the
\* CanvasNode entities once the handler's commands have been applied.
UpdateSpatialIndex ==
    /\ spatial_index # {n.id : n \in canvas.nodes}
    /\ spatial_index' = {n.id : n \in canvas.nodes}
    /\ UNCHANGED <<requests, watch, canvas, status, burst>>
    /\ UNCHANGED <<crawlVars, levelVars, histVars>>

InitApp ==
    /\ CrawlIdle
    /\ TraceIdle
    /\ LevelsIdle
    /\ AppIdle

NextApp ==
    \/ UserRequest
    \/ FileChange
    \/ Tick
    \/ WatchTrigger
    \/ HandleCrawlRequests
    \/ UpdateSpatialIndex

SpecApp == InitApp /\ [][NextApp]_vars

-----------------------------------------------------------------------------
(* Properties of CrawlerRouter::crawl                                       *)

Returned == pc = "done"

Namespaced == pc \in {"post", "prune", "done"}

PerFile == {per_file[i] : i \in DOMAIN per_file}

\* The key the spec gives a bare id of a file: relative_path + "::" + bare_id.
KeyOf(rel, bare) == rel \o <<"::">> \o bare

\* The bare id of a namespaced id: what follows its first "::".
BareOf(id) ==
    LET at == {i \in DOMAIN id : id[i] = "::"}
    IN  IF at = {} THEN id
        ELSE SubSeq(id, 1 + (CHOOSE i \in at : \A j \in at : i <= j), Len(id))

HasSep(id) == \E i \in DOMAIN id : id[i] = SEP

Count(seq, x) == Cardinality({i \in DOMAIN seq : seq[i] = x})

\* The files of per_file that declare the bare name t.
Declaring(t) == {f \in PerFile : t \in DOMAIN f.graph /\ ~HasSep(t)}

\* C1: in the returned graph every edge whose target has no decision
\* separator points to a key of the returned graph.
C1_CallTargetsAreKeys ==
    Returned =>
        \A k \in DOMAIN graph : \A i \in DOMAIN graph[k] :
            ~HasSep(graph[k][i].target) => graph[k][i].target \in DOMAIN graph

\* A returned graph with a call edge, from files where a call to an undeclared
\* name was dropped.
C1_Witness ==
    /\ Returned
    /\ \E k \in DOMAIN graph : \E i \in DOMAIN graph[k] : ~HasSep(graph[k][i].target)
    /\ \E f \in PerFile : \E k \in DOMAIN f.graph : \E i \in DOMAIN f.graph[k] :
          ~HasSep(f.graph[k][i].target) /\ Declaring(f.graph[k][i].target) = {}

\* C2: the returned graph has no decision node with an empty edge list.
C2_NoEmptyDecision ==
    Returned => \A k \in DOMAIN graph : HasSep(k) => graph[k] # <<>>

\* A second pruning pass removed a decision node that the first pass emptied.
C2_Witness == Returned /\ passes >= 2

\* C3: after namespacing the keys are exactly relative_path::bare_id, one per
\* (file, bare id), and each key carries the edges of its own file: the bare
\* targets and labels of the file's edges that resolve.
C3_KeysNamespaced ==
    pc = "post" =>
        /\ DOMAIN graph = UNION {{KeyOf(f.rel, k) : k \in DOMAIN f.graph} : f \in PerFile}
        /\ \A f1, f2 \in PerFile : \A k \in (DOMAIN f1.graph) \cap (DOMAIN f2.graph) :
              f1.rel # f2.rel => KeyOf(f1.rel, k) # KeyOf(f2.rel, k)
        /\ \A f \in PerFile : \A k \in DOMAIN f.graph :
              /\ KeyOf(f.rel, k) \in DOMAIN graph
              /\ {<<BareOf(e.target), e.label>> : e \in Elems(graph[KeyOf(f.rel, k)])}
                 = {<<e.target, e.label>> :
                      e \in {x \in Elems(f.graph[k]) :
                                HasSep(x.target) \/ Declaring(x.target) # {}}}

\* Two files declare the same bare function name with different edge lists.
C3_Witness ==
    /\ pc = "post"
    /\ \E f1, f2 \in PerFile : \E k \in (DOMAIN f1.graph) \cap (DOMAIN f2.graph) :
          /\ f1.rel # f2.rel
          /\ ~HasSep(k)
          /\ f1.graph[k] # f2.graph[k]
          /\ graph[KeyOf(f1.rel, k)] # graph[KeyOf(f2.rel, k)]

\* C4: a per-file call edge to a bare name declared in k >= 1 files becomes
\* exactly k edges, one to path::name for each declaring file, with the
\* original label; an edge to a name declared in no file is dropped.
C4_FanOut ==
    Namespaced =>
        \A f \in PerFile : \A k \in DOMAIN f.graph :
            KeyOf(f.rel, k) \in DOMAIN graph =>
                \A e \in {x \in Elems(f.graph[k]) : ~HasSep(x.target)} :
                    /\ \A d \in Declaring(e.target) :
                          Count(graph[KeyOf(f.rel, k)],
                                FlowEdge(KeyOf(d.rel, e.target), e.label))
                            = Count(f.graph[k], e)
                    /\ Cardinality({i \in DOMAIN graph[KeyOf(f.rel, k)] :
                            /\ BareOf(graph[KeyOf(f.rel, k)][i].target) = e.target
                            /\ graph[KeyOf(f.rel, k)][i].label = e.label})
                         = Count(f.graph[k], e) * Cardinality(Declaring(e.target))

\* A call edge to a name that two files declare, and one to a name no file declares.
C4_Witness ==
    /\ Returned
    /\ \E f \in PerFile : \E k \in DOMAIN f.graph : \E e \in Elems(f.graph[k]) :
          /\ ~HasSep(e.target)
          /\ Cardinality(Declaring(e.target)) = 2
          /\ KeyOf(f.rel, k) \in DOMAIN graph
    /\ \E f \in PerFile : \E k \in DOMAIN f.graph : \E e \in Elems(f.graph[k]) :
          ~HasSep(e.target) /\ Declaring(e.target) = {}

\* C5: crawl on a root that does not exist or is not a directory (the empty
\* string included) returns an empty graph and source map and parses no file.
C5_InvalidRootEmpty ==
    Returned /\ root.kind # "dir" =>
        graph = EmptyMap /\ source_map = EmptyMap /\ parsed = {} /\ per_file = <<>>

\* crawl has returned for a root that is a regular file.
C5_Witness == Returned /\ root.kind = "file"

\* The front end crawl selects for a directory entry.
ConfigOf(e) == parser_for(to_lowercase(extension(abs_path(root, e.rel))))[1]

\* The entries crawl parsed successfully: handed to a front end, no syntax error.
ParsedOk == {root.files[i] : i \in {j \in DOMAIN root.files :
                root.files[j].rel \in parsed /\ ~root.files[j].content.has_error}}

\* The names of the function declarations of a syntax tree.  With reached = TRUE
\* only those at the positions the walker enters: not under a test-scope node
\* whose name is on the deny-list, and under a loop node only within its body.
RECURSIVE DeclaredFns(_, _, _)
DeclaredFns(cfg, node, reached) ==
    IF reached /\ is_test_mod(cfg, node) THEN {}
    ELSE LET own  == IF node.kind \in cfg.function_kinds
                     THEN {function_name(cfg, node)} ELSE {}
             loop == node.kind \in (cfg.for_kinds \cup cfg.while_kinds)
             kids == {i \in DOMAIN node.children :
                        reached /\ loop => Some(node.children[i].field) = cfg.loop_body_field}
         IN  own \cup UNION {DeclaredFns(cfg, node.children[i].node, reached) : i \in kids}

\* C6, as stated: every function declared in a successfully parsed file is a
\* key of the returned graph.
C6_EveryDeclaredFunctionIsKey ==
    Returned =>
        \A e \in ParsedOk : \A n \in DeclaredFns(ConfigOf(e), e.content.tree, FALSE) :
            KeyOf(e.rel, n) \in DOMAIN graph

\* C6, amended: every function declared in a successfully parsed file at a
\* position the walker enters (outside a deny-listed test scope, and not in a
\* part of a loop other than its body) is a key of the returned graph, even
\* when its edge list is empty.
C6_ReachedFunctionIsKey ==
    Returned =>
        \A e \in ParsedOk : \A n \in DeclaredFns(ConfigOf(e), e.content.tree, TRUE) :
            KeyOf(e.rel, n) \in DOMAIN graph

\* A returned graph, after a pruning pass removed a decision node, that keeps a
\* declared function with an empty edge list.
C6_Witness ==
    /\ Returned
    /\ passes >= 1
    /\ \E e \in ParsedOk : \E n \in DeclaredFns(ConfigOf(e), e.content.tree, TRUE) :
          KeyOf(e.rel, n) \in DOMAIN graph /\ graph[KeyOf(e.rel, n)] = <<>>

-----------------------------------------------------------------------------
(* Properties of hierarchy_levels                                           *)

Finished == lpc = "done"

\* The callers of n in the argument graph, self-calls not counted.
CallersOf(n) ==
    {k \in DOMAIN lgraph \ {n} : \E i \in DOMAIN lgraph[k] : lgraph[k][i].target = n}

\* The nodes reachable from n along at least one edge that is not a self-edge.
RECURSIVE ReachFrom(_, _)
ReachFrom(frontier, seen) ==
    LET next == {m \in (DOMAIN lgraph) \ seen : \E k \in frontier : k \in CallersOf(m)}
    IN  IF next = {} THEN seen ELSE ReachFrom(next, seen \cup next)

Acyclic == \A n \in DOMAIN lgraph : n \notin ReachFrom({n}, {})

\* C7: every id of all_ids has a finite depth in the result, never the
\* unresolved sentinel, cyclic graphs included.
C7_EveryDepthFinite ==
    Finished =>
        \A n \in Elems(all_fns) :
            n \in DOMAIN level /\ level[n] \in Nat /\ level[n] < USIZE_MAX

\* The result for a graph with a cycle no root leads into: relaxation left ids
\* at the sentinel.
C7_Witness == Finished /\ unresolved # {} /\ ~Acyclic

\* C8, as stated: on an acyclic graph every node with a caller other than
\* itself has depth exactly 1 + the maximum depth of its callers, for every
\* order of all_ids.
C8_DepthIsOnePlusMaxCaller ==
    Finished /\ Acyclic =>
        \A n \in Elems(all_fns) :
            CallersOf(n) # {} => level[n] = 1 + SetMax({level[c] : c \in CallersOf(n)})

\* C9: at most |all_ids| + 2 relaxation passes run, a pass that changes no
\* depth is the last one, and the function returns.
C9_TerminatesWithinBound ==
    /\ [](iteration <= Len(all_fns) + 2)
    /\ [][(lpc = "relax" /\ ~changed) => (lpc' = "fill" /\ iteration' = iteration)]_vars
    /\ <>Finished

\* The loop was left after a pass that changed nothing, following passes that did.
C9_Witness == lpc = "fill" /\ ~changed /\ iteration >= 3 /\ iteration < Len(all_fns) + 2

\* C10: a node has depth 0 exactly when no node other than itself has an edge
\* to it; a self-edge does not count.
C10_RootIffNoOtherCaller ==
    Finished => \A n \in Elems(all_fns) : (level[n] = 0) <=> (CallersOf(n) = {})

\* A function whose only caller is itself is at depth 0, beside a called one below.
C10_Witness ==
    /\ Finished
    /\ \E n \in Elems(all_fns) :
          /\ \E i \in DOMAIN lgraph[n] : lgraph[n][i].target = n
          /\ CallersOf(n) = {}
          /\ level[n] = 0
    /\ \E m \in Elems(all_fns) : level[m] > 0

\* The depths of the ids the relaxation resolved.
ResolvedDepths == {level[n] : n \in (DOMAIN level) \ unresolved}

\* C11: every id the relaxation left at the sentinel ends at
\* max_resolved_depth + 1, the largest depth among the resolved ids plus one
\* (depth 1 when no id was resolved at all).
C11_UnresolvedBelowDeepest ==
    Finished =>
        \A n \in unresolved :
            level[n] = 1 + (IF ResolvedDepths = {} THEN 0 ELSE SetMax(ResolvedDepths))

\* A root calls into a chain next to a cycle nothing leads into: the
\* unresolved ids sit below a resolved id of depth 1 or more.
C11_Witness ==
    /\ Finished
    /\ unresolved # {}
    /\ \E d \in ResolvedDepths : d >= 1

\* C12, as stated: when relaxation leaves an id unresolved, the cycle warning
\* is emitted.
C12_UnresolvedIsWarned == Finished /\ unresolved # {} => warned

-----------------------------------------------------------------------------
(* Properties of two crawls of one directory                                *)

\* The edges of every key, as sets.
EdgeSets(g) == [k \in DOMAIN g |-> Elems(g[k])]

\* C13: the second crawl of an unchanged directory returns the same keys
\* (function ids and decision ids alike), the same set of edges for every key,
\* and the same source map as the first.
C13_RecrawlSameResult ==
    Returned /\ first_run # NoneOpt =>
        /\ DOMAIN graph = DOMAIN first_run[1].graph
        /\ EdgeSets(graph) = EdgeSets(first_run[1].graph)
        /\ source_map = first_run[1].source_map

\* Both crawls returned a graph with a decision node, and the directory walk
\* met the files in a different order: the edge lists differ as sequences.
C13_Witness ==
    /\ Returned
    /\ first_run # NoneOpt
    /\ \E k \in DOMAIN graph : HasSep(k)
    /\ graph # first_run[1].graph

-----------------------------------------------------------------------------
(* Properties of the source map                                             *)

\* The (name, start row) pairs of the function declarations the walker enters.
RECURSIVE DeclaredAt(_, _)
DeclaredAt(cfg, node) ==
    IF is_test_mod(cfg, node) THEN {}
    ELSE LET own  == IF node.kind \in cfg.function_kinds
                     THEN {<<function_name(cfg, node), node.row>>} ELSE {}
             loop == node.kind \in (cfg.for_kinds \cup cfg.while_kinds)
             kids == {i \in DOMAIN node.children :
                        loop => Some(node.children[i].field) = cfg.loop_body_field}
         IN  own \cup UNION {DeclaredAt(cfg, node.children[i].node) : i \in kids}

\* C14: the returned source map has no entry for a decision node; every key
\* of it is a function key of the returned graph, and its value is the path of
\* the file that declares the function with the 1-indexed line of the
\* declaration.
C14_SourceMapOfFunctions ==
    Returned =>
        \A k \in DOMAIN source_map :
            /\ ~HasSep(k)
            /\ k \in DOMAIN graph
            /\ \E e \in ParsedOk : \E d \in DeclaredAt(ConfigOf(e), e.content.tree) :
                  /\ k = KeyOf(e.rel, d[1])
                  /\ source_map[k] = <<root.name \o <<"/">> \o e.rel, d[2] + 1>>

\* A returned graph that keeps a decision node, with a source map entry for a
\* function declared below the first line of its file.
C14_Witness ==
    /\ Returned
    /\ \E k \in DOMAIN graph : HasSep(k)
    /\ \E k \in DOMAIN source_map : source_map[k][2] >= 2

-----------------------------------------------------------------------------
(* Properties of a crawl over a file that does not parse                    *)

\* The entries handed to a front end whose tree has structural errors.
ParsedWithErrors == {root.files[i] : i \in {j \in DOMAIN root.files :
                        root.files[j].rel \in parsed /\ root.files[j].content.has_error}}

KeysOfFile(m, rel) == {k \in DOMAIN m : StartsWith(k, rel \o <<"::">>)}

\* C15: a file whose parse reports structural errors contributes nothing (no
\* graph key, no source map entry), crawl still returns, and the returned
\* graph has the functions of every other parsed file.
C15_ErrorFileContributesNothing ==
    Returned =>
        \A bad \in ParsedWithErrors :
            /\ KeysOfFile(graph, bad.rel) = {}
            /\ KeysOfFile(source_map, bad.rel) = {}
            /\ \A f \in PerFile : f.rel # bad.rel
            /\ \A e \in ParsedOk : \A n \in DeclaredFns(ConfigOf(e), e.content.tree, TRUE) :
                  KeyOf(e.rel, n) \in DOMAIN graph

\* crawl returned the functions of one file although the other file of the
\* directory had structural errors.
C15_Witness ==
    /\ Returned
    /\ ParsedWithErrors # {}
    /\ \E e \in ParsedOk : KeysOfFile(graph, e.rel) # {}

-----------------------------------------------------------------------------
(* Properties of the crawl systems of the application                       *)

\* The request the watcher writes for the watched root.
Recrawl_request == CrawlRequest(watch.watch_path[1], watch.no_flow)

\* The request names no directory, or a directory in which crawl finds no
\* function.
Fails(ev) ==
    LET r == Disk(trim(ev.path))
    IN  r.kind # "dir" \/ crawl_of[r.name][ev.no_flow].graph = EmptyMap

\* A run of watch_trigger_system that writes a request.
WatchWrites == WatchTrigger /\ requests' # requests

\* A run of handle_crawl_requests in which a crawl succeeds.
CrawlSucceeds == HandleCrawlRequests /\ \E i \in DOMAIN requests : ~Fails(requests[i])

\* A run of watch_trigger_system that observes no relevant notification.
NothingObserved ==
    watch.rx = NoneOpt \/ ~drain(watch.rx[1].events, FALSE).found

\* The notifications observed so far have been quiet for the whole window.
QuietWindow == burst # NoneOpt /\ burst[1] >= DebounceMs

C17_WatcherIsForWatchPath ==
    watch.watch_path # NoneOpt =>
        /\ watch.watcher = watch.watch_path
        /\ watch.rx # NoneOpt
        /\ watch.rx[1].root = watch.watch_path[1]

\* The advisory message of a failing request; a blank path has none.
Advisory(ev) ==
    LET path == trim(ev.path)
    IN  IF Disk(path).kind # "dir" THEN <<"crawl: path not found: ">> \o path
        ELSE <<"crawl: no functions found in ">> \o path

\* The status after a run of the handler in which every request failed.
RECURSIVE StatusAfter(_, _)
StatusAfter(st, evs) ==
    IF evs = <<>> THEN st
    ELSE StatusAfter(IF trim(Head(evs).path) = <<>> THEN st ELSE Advisory(Head(evs)),
                     Tail(evs))

\* C18: a crawl request whose path is missing or not a directory, or whose
\* crawl finds no functions, only sets the advisory status message: a run of
\* the handler whose requests all fail leaves the canvas nodes and edges, the
\* spatial index and the watch state (watcher, channel, path, no_flow,
\* pending timestamp) as they were.
C18_FailedRequestOnlySetsStatus ==
    [][(HandleCrawlRequests /\ \A i \in DOMAIN requests : Fails(requests[i])) =>
          /\ canvas' = canvas
          /\ spatial_index' = spatial_index
          /\ watch' = watch
          /\ status' = StatusAfter(status, requests)]_vars

\* The handler has rejected a request while the canvas showed a crawled
\* graph, the index held its nodes, and a watcher with a pending timestamp
\* and no_flow set was installed.
C18_Witness ==
    /\ requests = <<>>
    /\ status # <<>>
    /\ status[1] \in {"crawl: path not found: ", "crawl: no functions found in "}
    /\ \E n \in canvas.nodes : n.location # NoneOpt
    /\ canvas.edges # {}
    /\ spatial_index = {n.id : n \in canvas.nodes}
    /\ watch.watcher # NoneOpt
    /\ watch.rx # NoneOpt
    /\ watch.no_flow
    /\ watch.last_event # NoneOpt

-----------------------------------------------------------------------------
(* Properties of the per-file graphs                                        *)

\* The file holds one function, name, whose body is one if/else with the
\* call c1() in the then branch and the call c2() in the else branch.
IsIfElseFile(e, L, name, c1, c2) ==
    e.content =
        [readable |-> TRUE, has_error |-> FALSE,
         tree |-> FileTree(L, <<FnNode(L, name, 0,
                     <<IfNode(L, <<"c">>, <<CallNode(L, c1)>>, Some(<<CallNode(L, c2)>>))>>)>>)]

LangOf(e) == IF extension(e.rel) = ".rs" THEN "rs" ELSE "py"

\* The node reached from node by taking the children at the positions of path.
RECURSIVE At(_, _)
At(node, path) ==
    IF path = <<>> THEN Some(node)
    ELSE IF Head(path) \in DOMAIN node.children
         THEN At(node.children[Head(path)].node, Tail(path))
         ELSE NoneOpt

\* Some(name, c1, c2) when the file is of that shape, NoneOpt otherwise.
IfElseShape(e) ==
    LET n == At(e.content.tree, <<1, 1>>)
        a == At(e.content.tree, <<1, 2, 1, 2, 1, 1>>)
        b == At(e.content.tree, <<1, 2, 1, 3, 1, 1, 1>>)
    IN  IF n = NoneOpt \/ a = NoneOpt \/ b = NoneOpt THEN NoneOpt
        ELSE IF IsIfElseFile(e, LangOf(e), n[1].text, a[1].text, b[1].text)
             THEN Some([name |-> n[1].text, c1 |-> a[1].text, c2 |-> b[1].text])
             ELSE NoneOpt

\* The per-file graph of the parsed file rel has, for the function, one
\* unlabeled edge to a decision node, and the decision node has the two
\* labeled edges True -> c1 and False -> c2.
IfElseGraph(rel, s) ==
    \E f \in PerFile :
        /\ f.rel = rel
        /\ s.name \in DOMAIN f.graph
        /\ Len(f.graph[s.name]) = 1
        /\ LET d == f.graph[s.name][1]
           IN  /\ d.label = NoneOpt
               /\ HasSep(d.target)
               /\ d.target \in DOMAIN f.graph
               /\ f.graph[d.target] = <<FlowEdge(s.c1, Some(<<"True">>)),
                                        FlowEdge(s.c2, Some(<<"False">>))>>

RECURSIVE CallsUnder(_, _)
CallsUnder(cfg, node) ==
    (IF node.kind = cfg.call_kind
     THEN {get_text(child_by_field_name(node, cfg.call_function_field)[1])}
     ELSE {})
    \cup UNION {CallsUnder(cfg, node.children[i].node) : i \in DOMAIN node.children}

\* The positions of the functions declared at the top level of a file.
TopFunctions(cfg, tree) ==
    {i \in DOMAIN tree.children : tree.children[i].node.kind \in cfg.function_kinds}

TopFunctionName(tree, i) == get_text(child_by_field_name(tree.children[i].node, "name")[1])

\* The function at position i directly follows a comment that contains @flow.
FlowMarked(cfg, tree, i) ==
    /\ i > 1
    /\ tree.children[i - 1].node.kind = cfg.comment_kind[1]
    /\ Contains(get_text(tree.children[i - 1].node), "@flow")

\* The per-file graph of a file: empty when the router kept none.
FileGraph(rel) ==
    IF \E f \in PerFile : f.rel = rel
    THEN (CHOOSE f \in PerFile : f.rel = rel).graph
    ELSE EmptyMap

HasEdgeTo(g, callee) == \E k \in DOMAIN g : \E j \in DOMAIN g[k] : g[k][j].target = callee

\* The file was parsed without syntax errors.
ParsedClean(e) == e.rel \in parsed /\ ~e.content.has_error

-----------------------------------------------------------------------------
(* Properties of the decision nodes of the per-file graphs                  *)

\* The (source, position) pairs of the edges of g that point to id.
Incoming(g, id) == {ck \in edge_slots(g) : g[ck[1]][ck[2]].target = id}

DecisionKinds(cfg) ==
    (IF cfg.if_kind = NoneOpt THEN {} ELSE {cfg.if_kind[1]})
    \cup cfg.for_kinds \cup cfg.while_kinds
    \cup (IF cfg.match_kind = NoneOpt THEN {} ELSE {cfg.match_kind[1]})

\* The number of if, loop and match constructs of the subtree of node that
\* lie outside every function and every other such construct.
RECURSIVE Unenclosed(_, _)
RECURSIVE UnenclosedFrom(_, _, _)
Unenclosed(cfg, node) ==
    IF is_test_mod(cfg, node) THEN 0
    ELSE IF node.kind \in cfg.function_kinds \cup cfg.anon_function_kinds THEN 0
    ELSE IF node.kind \in DecisionKinds(cfg) THEN 1
    ELSE UnenclosedFrom(cfg, node, 1)

UnenclosedFrom(cfg, node, i) ==
    IF i > Len(node.children) THEN 0
    ELSE Unenclosed(cfg, node.children[i].node) + UnenclosedFrom(cfg, node, i + 1)

\* The decision nodes that are keys of g.
DecisionKeys(g) == {k \in DOMAIN g : is_decision(k)}

\* Every edge into the decision node id of the per-file graph of f is
\* unlabeled and comes from another key that is a function or a decision.
LinkedFromScope(f, id) ==
    \A ck \in Incoming(f.graph, id) :
        /\ f.graph[ck[1]][ck[2]].label = NoneOpt
        /\ ck[1] # id
        /\ ck[1] \in DOMAIN f.lines \/ is_decision(ck[1])

IsIf(cfg, n) == n # NoneOpt /\ cfg.if_kind = Some(n[1].kind)

\* For a top-level function whose first statement is an if, the first edge of
\* the function is the unlabeled edge to that decision; when the first
\* statement of the then-branch is an if again, the first edge of the outer
\* decision is the one unlabeled edge into the inner decision.
NestedUnderEncloser(e) ==
    LET cfg  == ConfigOf(e)
        tree == e.content.tree
        g    == FileGraph(e.rel)
    IN  \A k \in TopFunctions(cfg, tree) :
            IsIf(cfg, At(tree, <<k, 2, 1>>)) =>
                LET n == TopFunctionName(tree, k)
                IN  /\ n \in DOMAIN g
                    /\ g[n] # <<>>
                    /\ g[n][1].label = NoneOpt
                    /\ g[n][1].target \in DecisionKeys(g)
                    /\ {ck[1] : ck \in Incoming(g, g[n][1].target)} = {n}
                    /\ IsIf(cfg, At(tree, <<k, 2, 1, 2, 1>>)) =>
                          LET d1 == g[n][1].target
                          IN  /\ g[d1] # <<>>
                              /\ g[d1][1].label = NoneOpt
                              /\ g[d1][1].target \in DecisionKeys(g) \ {d1}
                              /\ {ck[1] : ck \in Incoming(g, g[d1][1].target)} = {d1}

\* C21, as stated: every decision node that is a key of a per-file graph is
\* the target of exactly one edge of that graph, and that edge is unlabeled
\* and comes from the enclosing function, or from the enclosing decision node
\* when the construct is nested; no decision node is without such an edge.
C21_DecisionHasOneIncomingEdge ==
    /\ \A f \in PerFile : \A d \in DecisionKeys(f.graph) :
          /\ Cardinality(Incoming(f.graph, d)) = 1
          /\ LinkedFromScope(f, d)
    /\ \A i \in DOMAIN root.files :
          ParsedClean(root.files[i]) => NestedUnderEncloser(root.files[i])

\* C21, amended: a decision node has at most one incoming edge, unlabeled,
\* from the enclosing function or decision; the decision nodes without an
\* incoming edge are as many as the constructs outside every function.
C21_DecisionLinkedWhenEnclosed ==
    /\ \A f \in PerFile : \A d \in DecisionKeys(f.graph) :
          /\ Cardinality(Incoming(f.graph, d)) <= 1
          /\ LinkedFromScope(f, d)
    /\ \A i \in DOMAIN root.files :
          LET e == root.files[i]
              g == FileGraph(e.rel)
          IN  ParsedClean(e) =>
                /\ NestedUnderEncloser(e)
                /\ Cardinality({d \in DecisionKeys(g) : Incoming(g, d) = {}})
                      = Unenclosed(ConfigOf(e), e.content.tree)

\* A parsed file with an if nested in an if inside a function, and a parsed
\* file with an if outside every function whose decision node has no
\* incoming edge.
C21_Witness ==
    /\ pc = "done"
    /\ \E i \in DOMAIN root.files :
          LET e == root.files[i]
          IN  /\ ParsedClean(e)
              /\ \E k \in TopFunctions(ConfigOf(e), e.content.tree) :
                    IsIf(ConfigOf(e), At(e.content.tree, <<k, 2, 1, 2, 1>>))
              /\ Cardinality(DecisionKeys(FileGraph(e.rel))) = 2
    /\ \E i \in DOMAIN root.files :
          LET e == root.files[i]
              g == FileGraph(e.rel)
          IN  /\ ParsedClean(e)
              /\ Unenclosed(ConfigOf(e), e.content.tree) = 1
              /\ \E d \in DecisionKeys(g) : Incoming(g, d) = {}

-----------------------------------------------------------------------------
(* crawl with suppress_decisions set, as one step                           *)

\* CrawlerRouter::crawl(root, true): the per-file graphs and the merged graph.
CrawlSuppressed ==
    /\ pc = "start"
    /\ per_file' = IF invalid_root(root) THEN <<>> ELSE parse_entries(root, 1, <<>>, TRUE)
    /\ \E res \in {crawl(root, TRUE)} :
          /\ graph' = res.graph
          /\ source_map' = res.source_map
    /\ pc' = "done"
    /\ UNCHANGED <<root, todo, parsed, defined_in, passes>>
    /\ UNCHANGED <<levelVars, histVars, appVars>>

SpecSuppressed == Init /\ [][CrawlSuppressed]_vars

Targets(g) == {g[ck[1]][ck[2]].target : ck \in edge_slots(g)}

Labels(g) == {g[ck[1]][ck[2]].label : ck \in edge_slots(g)}

\* The entry of the crawled directory that the per-file graph f was made from.
EntryOf(f) == CHOOSE e \in Elems(root.files) : e.rel = f.rel

\* The callees of the calls under node that the built-in filter keeps.
KeptCalls(cfg, tree, node) ==
    {c \in CallsUnder(cfg, node) : ~call_filtered(cfg, c, collect_force_includes(cfg, tree))}

\* C22: with suppress_decisions set the per-file graphs and the merged graph
\* hold no decision node, as a key or as an edge target, no edge has a
\* label, and every call inside a function, also one inside an if, loop or
\* match, is an edge from that function.
C22_SuppressedGraphIsFlat ==
    pc = "done" =>
        /\ DecisionKeys(graph) = {}
        /\ \A t \in Targets(graph) : ~is_decision(t)
        /\ \A f \in PerFile :
              LET cfg  == ConfigOf(EntryOf(f))
                  tree == EntryOf(f).content.tree
              IN  /\ DecisionKeys(f.graph) = {}
                  /\ \A t \in Targets(f.graph) : ~is_decision(t)
                  /\ Labels(f.graph) \subseteq {NoneOpt}
                  /\ \A k \in TopFunctions(cfg, tree) :
                        /\ TopFunctionName(tree, k) \in DOMAIN f.graph
                        /\ Elems([j \in DOMAIN f.graph[TopFunctionName(tree, k)] |->
                                    f.graph[TopFunctionName(tree, k)][j].target])
                              = KeptCalls(cfg, tree, tree.children[k].node)

\* A crawl with suppress_decisions of a file whose function holds a call
\* inside an if inside an if: the function has the edge to the callee.
C22_Witness ==
    /\ pc = "done"
    /\ graph # EmptyMap
    /\ \E f \in PerFile :
          LET cfg  == ConfigOf(EntryOf(f))
              tree == EntryOf(f).content.tree
          IN  \E k \in TopFunctions(cfg, tree) :
                /\ At(tree, <<k, 2, 1, 2, 1>>) # NoneOpt
                /\ At(tree, <<k, 2, 1, 2, 1>>)[1].kind \in DecisionKinds(cfg)
                /\ CallsUnder(cfg, At(tree, <<k, 2, 1, 2, 1>>)[1]) # {}
                /\ \E j \in DOMAIN f.graph[TopFunctionName(tree, k)] :
                      f.graph[TopFunctionName(tree, k)][j].target
                          \in CallsUnder(cfg, At(tree, <<k, 2, 1, 2, 1>>)[1])

-----------------------------------------------------------------------------
(* Properties of the test-scope skip                                        *)

\* The node is of the test-scope kind and its name is on the deny-list.
InDenyList(cfg, node) ==
    /\ cfg.test_mod_kind = Some(node.kind)
    /\ \E i \in DOMAIN node.children :
          /\ node.children[i].field = cfg.test_mod_name_field
          /\ node.children[i].node.text \in cfg.test_mod_names

\* The deny-listed test-scope nodes of the subtree of node.
RECURSIVE TestScopes(_, _)
TestScopes(cfg, node) ==
    IF InDenyList(cfg, node) THEN {node}
    ELSE UNION {TestScopes(cfg, node.children[i].node) : i \in DOMAIN node.children}

\* The tree with every deny-listed test-scope node replaced by a leaf.
RECURSIVE Inert(_, _)
Inert(cfg, node) ==
    IF InDenyList(cfg, node) THEN MkNode("empty_statement", <<>>, node.row, <<>>)
    ELSE [node EXCEPT !.children =
            [i \in DOMAIN node.children |->
                Child(node.children[i].field, Inert(cfg, node.children[i].node))]]

\* The subtree of node holds a node of one of the kinds.
RECURSIVE HasKind(_, _)
HasKind(node, kinds) ==
    node.kind \in kinds \/ \E i \in DOMAIN node.children : HasKind(node.children[i].node, kinds)

\* The line map of the per-file result of a file: empty when the router kept none.
FileLines(rel) ==
    IF \E f \in PerFile : f.rel = rel
    THEN (CHOOSE f \in PerFile : f.rel = rel).lines
    ELSE EmptyMap

-----------------------------------------------------------------------------
(* Properties of the pruning loop (router.rs 169-185)                       *)

\* The decision nodes of the merged graph when the loop is entered: the
\* namespaced decision keys of the per-file graphs.
RECURSIVE MergedDecisions(_)
MergedDecisions(i) ==
    IF i > Len(per_file) THEN 0
    ELSE Cardinality(DecisionKeys(per_file[i].graph)) + MergedDecisions(i + 1)

InPruneLoop == pc \in {"prune", "done"}

\* C24: every pass of the pruning loop but the last removes at least one
\* decision node and no other key, the last pass leaves the graph as it is and
\* returns, and the passes that removed something never outnumber the decision
\* nodes of the merged graph: the loop ends after at most that number + 1 passes.
C24_PruneLoopBounded ==
    /\ [](InPruneLoop =>
            passes + Cardinality(DecisionKeys(graph)) <= MergedDecisions(1))
    /\ [][/\ PrunePass =>
                /\ DecisionKeys(graph') \subseteq DecisionKeys(graph)
                /\ DecisionKeys(graph') # DecisionKeys(graph)
                /\ (DOMAIN graph) \ DecisionKeys(graph) \subseteq DOMAIN graph'
          /\ PruneExit => graph' = graph /\ pc' = "done"
          /\ (pc = "prune" /\ pc' = "prune") => passes < MergedDecisions(1)]_vars

\* The loop returned after as many removing passes as there were decision
\* nodes, two or more: the bound is reached.
C24_Witness ==
    /\ Returned
    /\ passes = MergedDecisions(1)
    /\ passes >= 2
    /\ DecisionKeys(graph) = {}

-----------------------------------------------------------------------------
(* Properties of the scope a call edge is attached to                       *)

\* The positions of the nodes of a syntax tree, as child-index paths.
RECURSIVE Paths(_)
Paths(node) ==
    {<<>>} \cup UNION {{<<i>> \o q : q \in Paths(node.children[i].node)} :
                          i \in DOMAIN node.children}

Prefix(p, j) == SubSeq(p, 1, j)

\* p comes before q in a depth-first, left-to-right traversal.
Before(p, q) ==
    \/ Len(p) < Len(q) /\ Prefix(q, Len(p)) = p
    \/ \E j \in 1..Len(p) :
          j <= Len(q) /\ Prefix(p, j - 1) = Prefix(q, j - 1) /\ p[j] < q[j]

\* The traversal goes from node a to its child c: not into a test scope, from
\* a loop only into its body, from an if only into condition and branches,
\* from a match only into value and arms, from an arm not into its pattern.
StepWalked(cfg, a, c) ==
    IF is_test_mod(cfg, a) THEN FALSE
    ELSE IF a.kind \in cfg.function_kinds \cup cfg.anon_function_kinds THEN TRUE
    ELSE IF cfg.if_kind = Some(a.kind)
         THEN \/ Some(c.field) \in {cfg.if_condition_field, cfg.if_then_field, cfg.if_else_field}
              \/ Some(c.node.kind) \in {cfg.elif_clause_kind, cfg.else_clause_kind}
    ELSE IF a.kind \in cfg.for_kinds \cup cfg.while_kinds
         THEN Some(c.field) = cfg.loop_body_field
    ELSE IF cfg.match_kind = Some(a.kind)
         THEN Some(c.field) \in {cfg.match_value_field, cfg.match_body_field}
    ELSE IF cfg.match_arm_kind = Some(a.kind)
         THEN cfg.match_pattern_kind # Some(c.node.kind)
    ELSE TRUE

WalkedTo(cfg, tree, p) ==
    /\ \A j \in 0..(Len(p) - 1) :
          LET a == At(tree, Prefix(p, j))[1]
          IN  StepWalked(cfg, a, a.children[p[j + 1]])
    /\ ~is_test_mod(cfg, At(tree, p)[1])

\* The positions of the ifs, loops and matches the traversal reaches.
WalkedDecisions(cfg, tree) ==
    {p \in Paths(tree) :
        WalkedTo(cfg, tree, p) /\ At(tree, p)[1].kind \in DecisionKinds(cfg)}

\* The number the traversal gives the if, loop or match at position q, decs
\* being the positions of all of them.
DecisionRank(decs, q) == Cardinality({p \in decs : p = q \/ Before(p, q)})

\* Some(the key of g that is the decision node for the construct at q).
DecisionAt(decs, g, q) ==
    LET ks == {k \in DecisionKeys(g) : k[2] = ToString(DecisionRank(decs, q))}
    IN  IF Cardinality(ks) = 1 THEN Some(CHOOSE k \in ks : TRUE) ELSE NoneOpt

\* The pattern text of a match arm, '_' when the arm has no pattern.
PatternText(cfg, arm) ==
    LET ps == {k \in DOMAIN arm.children :
                  cfg.match_pattern_kind = Some(arm.children[k].node.kind)}
    IN  IF ps = {} THEN <<"_">> ELSE get_text(arm.children[CHOOSE k \in ps : TRUE].node)

\* The nearest ancestor of the node at Prefix(p, j) that is a match.
MatchAbove(cfg, tree, p, j) ==
    LET js == {i \in 0..j : cfg.match_kind = Some(At(tree, Prefix(p, i))[1].kind)}
    IN  Prefix(p, SetMax(js))

\* What the ancestor at Prefix(p, j) is for the node at p: "fn" for a function
\* declaration, "branch" for an if, loop or match arm that has p in a branch,
\* loop body or arm; "none" otherwise.
ScopeKind(cfg, tree, p, j) ==
    LET a == At(tree, Prefix(p, j))[1]
        c == a.children[p[j + 1]]
    IN  IF a.kind \in cfg.function_kinds THEN "fn"
        ELSE IF cfg.if_kind = Some(a.kind)
             THEN IF \/ Some(c.field) \in {cfg.if_then_field, cfg.if_else_field}
                     \/ cfg.else_clause_kind = Some(c.node.kind)
                  THEN "branch" ELSE "none"
        ELSE IF a.kind \in cfg.for_kinds \cup cfg.while_kinds
             THEN IF Some(c.field) = cfg.loop_body_field THEN "branch" ELSE "none"
        ELSE IF cfg.match_arm_kind = Some(a.kind) THEN "branch"
        ELSE "none"

\* The label of the branch the ancestor at Prefix(p, j) has p in.
BranchLabel(cfg, tree, p, j) ==
    LET a == At(tree, Prefix(p, j))[1]
        c == a.children[p[j + 1]]
    IN  IF a.kind \in cfg.function_kinds THEN NoneOpt
        ELSE IF cfg.if_kind = Some(a.kind)
             THEN IF Some(c.field) = cfg.if_then_field
                  THEN Some(<<"True">>) ELSE Some(<<"False">>)
        ELSE IF a.kind \in cfg.for_kinds \cup cfg.while_kinds THEN Some(<<"Loop">>)
        ELSE Some(PatternText(cfg, a))

\* The key of g for the ancestor at Prefix(p, j): the function's name or the
\* decision node of the construct.
ScopeKey(cfg, tree, decs, g, p, j) ==
    LET a == At(tree, Prefix(p, j))[1]
    IN  IF a.kind \in cfg.function_kinds THEN Some(function_name(cfg, a))
        ELSE IF cfg.match_arm_kind = Some(a.kind)
             THEN DecisionAt(decs, g, MatchAbove(cfg, tree, p, j))
        ELSE DecisionAt(decs, g, Prefix(p, j))

CalleeAt(cfg, tree, p) ==
    get_text(child_by_field_name(At(tree, p)[1], cfg.call_function_field)[1])

\* The calls of a file the traversal reaches whose callee is no built-in.
KeptCallsAt(cfg, tree) ==
    {p \in Paths(tree) :
        /\ WalkedTo(cfg, tree, p)
        /\ At(tree, p)[1].kind = cfg.call_kind
        /\ CalleeAt(cfg, tree, p) \notin cfg.builtins \cup {<<>>}}

\* The innermost enclosing branch of the call at p, else the innermost
\* enclosing function: Some(j) for the ancestor at Prefix(p, j).
InnermostBranch(cfg, tree, p) ==
    LET bs == {j \in 0..(Len(p) - 1) : ScopeKind(cfg, tree, p, j) = "branch"}
        fs == {j \in 0..(Len(p) - 1) : ScopeKind(cfg, tree, p, j) = "fn"}
    IN  IF bs # {} THEN Some(SetMax(bs))
        ELSE IF fs # {} THEN Some(SetMax(fs)) ELSE NoneOpt

\* The innermost enclosing scope of the call at p, a branch or a function.
InnermostScope(cfg, tree, p) ==
    LET ss == {j \in 0..(Len(p) - 1) : ScopeKind(cfg, tree, p, j) # "none"}
    IN  IF ss = {} THEN NoneOpt ELSE Some(SetMax(ss))

\* The call at p has, from the key of the ancestor at Prefix(p, j), an edge
\* with the label of the branch, and that (key, edge) occurs in g as often as
\* there are calls that Enclosing places there.
AttachedAt(cfg, tree, calls, decs, g, Enclosing(_), p) ==
    LET j    == Enclosing(p)[1]
        key  == ScopeKey(cfg, tree, decs, g, p, j)
        edge == FlowEdge(CalleeAt(cfg, tree, p), BranchLabel(cfg, tree, p, j))
        same == {q \in calls :
                    /\ Enclosing(q) # NoneOpt
                    /\ ScopeKey(cfg, tree, decs, g, q, Enclosing(q)[1]) = key
                    /\ CalleeAt(cfg, tree, q) = edge.target
                    /\ BranchLabel(cfg, tree, q, Enclosing(q)[1]) = edge.label}
    IN  /\ key # NoneOpt
        /\ key[1] \in DOMAIN g
        /\ Count(g[key[1]], edge) = Cardinality(same)

\* Every call edge of g to a name that is no built-in belongs to a call that
\* Enclosing places at its source with its label.
OnlyAttached(cfg, tree, calls, decs, g, Enclosing(_)) ==
    \A k \in DOMAIN g : \A i \in DOMAIN g[k] :
        (~is_decision(g[k][i].target) /\ g[k][i].target \notin cfg.builtins) =>
            \E p \in calls :
                /\ Enclosing(p) # NoneOpt
                /\ ScopeKey(cfg, tree, decs, g, p, Enclosing(p)[1]) = Some(k)
                /\ CalleeAt(cfg, tree, p) = g[k][i].target
                /\ BranchLabel(cfg, tree, p, Enclosing(p)[1]) = g[k][i].label

CallsAttachedBy(Enclosing(_, _, _)) ==
    Returned =>
        \A i \in DOMAIN root.files :
            LET e    == root.files[i]
                cfg  == ConfigOf(e)
                tree == e.content.tree
                g    == FileGraph(e.rel)
                Enc(p) == Enclosing(cfg, tree, p)
            IN  ParsedClean(e) =>
                  \A calls \in {KeptCallsAt(cfg, tree)} :
                  \A decs \in {WalkedDecisions(cfg, tree)} :
                      /\ \A p \in calls :
                            Enc(p) # NoneOpt =>
                                AttachedAt(cfg, tree, calls, decs, g, Enc, p)
                      /\ OnlyAttached(cfg, tree, calls, decs, g, Enc)

BranchEdge(rel, r, callee, label) ==
    \E d \in DecisionKeys(FileGraph(rel)) :
        /\ d[2] = ToString(r)
        /\ FlowEdge(callee, Some(label)) \in Elems(FileGraph(rel)[d])

-----------------------------------------------------------------------------
(* Properties of hierarchy_levels across iteration orders                   *)

Reverse(seq) == [i \in DOMAIN seq |-> seq[Len(seq) + 1 - i]]

\* The depths hierarchy_levels returns from a given reverse adjacency.
LevelsFrom(fns, c2c) ==
    fill_unresolved(relax_loop(fns, c2c, seed_levels(fns, c2c), TRUE, 0))

\* C26: the depths returned for a graph and an all_ids sequence are those of
\* the run that iterates the graph map in sorted order, whatever order the run
\* iterated it in, and they stay the same when the callers of every callee
\* are listed in the opposite order.
C26_LevelsIndependentOfOrder ==
    Finished =>
        /\ level = hierarchy_levels(lgraph, all_fns)
        /\ level = LevelsFrom(all_fns, [k \in DOMAIN callee_to_callers |->
                                            Reverse(callee_to_callers[k])])

\* A finished run whose map iteration listed the callers of some callee in
\* another order than the sorted iteration does, the callers having different
\* depths.
C26_Witness ==
    /\ Finished
    /\ \E k \in DOMAIN callee_to_callers :
          /\ callee_to_callers[k]
                # build_callers(lgraph, sorted(DOMAIN lgraph), 1, EmptyMap)[k]
          /\ \E c1, c2 \in Elems(callee_to_callers[k]) :
                c1 \in DOMAIN level /\ c2 \in DOMAIN level /\ level[c1] # level[c2]

-----------------------------------------------------------------------------
(* Properties of a run of handle_crawl_requests with several requests       *)

\* The last request of the queue whose crawl succeeds.
LastSuccessful(evs) ==
    evs[SetMax({i \in DOMAIN evs : ~Fails(evs[i])})]

\* What a successful request spawns.
SpawnedFor(ev) == crawl_of[Disk(trim(ev.path)).name][ev.no_flow]

\* C27: after a run of handle_crawl_requests in which a crawl succeeds the
\* canvas holds exactly the nodes and edges of the last successful request of
\* the run: what existed before is gone, and so is what was spawned for an
\* earlier request of the same run.
C27_CanvasIsLastRequest ==
    [][CrawlSucceeds =>
          canvas' = [nodes |-> SpawnedFor(LastSuccessful(requests)).nodes,
                     edges |-> SpawnedFor(LastSuccessful(requests)).edges]]_vars

-----------------------------------------------------------------------------
(* Properties of the edge targets of the returned graph                     *)

\* The edges of the per-file graphs that point to a decision node: the file,
\* the source key and the edge.
DecisionEdges ==
    UNION {UNION {{<<f.rel, k, e>> : e \in {x \in Elems(f.graph[k]) : is_decision(x.target)}} :
                    k \in DOMAIN f.graph} :
             f \in PerFile}

\* C28: in the returned graph every edge target, a function or a decision
\* node, is a key of the returned graph.
C28_EveryTargetIsKey ==
    Returned =>
        \A k \in DOMAIN graph : \A i \in DOMAIN graph[k] :
            graph[k][i].target \in DOMAIN graph

\* A returned graph with an edge to a decision node that was kept, from files
\* where the source of an edge to a decision node was kept and the decision
\* node was removed by pruning.
C28_Witness ==
    /\ Returned
    /\ passes >= 1
    /\ \E k \in DOMAIN graph : \E i \in DOMAIN graph[k] : is_decision(graph[k][i].target)
    /\ \E t \in DecisionEdges :
          /\ KeyOf(t[1], t[2]) \in DOMAIN graph
          /\ KeyOf(t[1], t[3].target) \notin DOMAIN graph

-----------------------------------------------------------------------------
(* handle_crawl_requests in two steps, with source files changing between   *)
(* the router's reading of the files and the installation of the watcher    *)

MaxChanges == 2

\* The directory the user crawls and edits.
RaceRoot == <<"/", "b">>

\* The command palette writes a CrawlRequest for the directory.
RaceUserRequest ==
    /\ handling = NoneOpt
    /\ Len(requests) < MaxQueue
    /\ requests' = Append(requests, CrawlRequest(RaceRoot, FALSE))
    /\ UNCHANGED <<watch, canvas, spatial_index, status, burst>>
    /\ UNCHANGED <<crawlVars, levelVars, histVars>>

\* mod.rs 241, 261 with router.rs 60-88: the handler reads the unread requests
\* and the router reads the source files as they are now.
BeginHandle ==
    /\ handling = NoneOpt
    /\ requests # <<>>
    /\ handling' = Some([evs |-> requests, read |-> disk_version])
    /\ requests' = <<>>
    /\ UNCHANGED <<watch, canvas, spatial_index, status, burst>>
    /\ UNCHANGED <<crawlVars, levelVars, traceVars, first_run, disk_version, shown_version>>

\* A source file of the directory is saved.  The watcher that is installed for
\* the directory, if there is one, sends the notification into the channel it
\* was created with (mod.rs 392-394); without a watcher nothing is sent.
SourceChange ==
    /\ disk_version < MaxChanges
    /\ disk_version' = disk_version + 1
    /\ IF watch.watcher = Some(RaceRoot) /\ watch.rx # NoneOpt
       THEN /\ Len(watch.rx[1].events) < MaxChan
            /\ watch' = [watch EXCEPT !.rx = Some([watch.rx[1] EXCEPT !.events =
                            Append(@, [ok |-> TRUE, paths |-> <<<<"m", ".rs">>>>])])]
       ELSE watch' = watch
    /\ UNCHANGED <<requests, canvas, spatial_index, status, burst>>
    /\ UNCHANGED <<crawlVars, levelVars, traceVars, first_run, shown_version, handling>>

\* mod.rs 262-410: the rest of the handler: despawn, spawn, status and the new
\* watcher and channel, which replace the stored ones.
EndHandle ==
    /\ handling # NoneOpt
    /\ \E created \in [1..Len(handling[1].evs) -> BOOLEAN] :
          \E st \in {handle_all([despawned |-> FALSE, nodes |-> {}, edges |-> {},
                                  spatial_index |-> spatial_index, status |-> status,
                                  watch |-> watch, crawled |-> 0],
                                 handling[1].evs, created)} :
              /\ canvas' = IF st.despawned
                           THEN [nodes |-> st.nodes, edges |-> st.edges]
                           ELSE canvas
              /\ spatial_index' = st.spatial_index
              /\ status' = st.status
              /\ watch' = st.watch
              /\ burst' = IF st.crawled > 0 THEN NoneOpt ELSE burst
              /\ shown_version' = IF st.crawled > 0 THEN handling[1].read
                                  ELSE shown_version
    /\ handling' = NoneOpt
    /\ UNCHANGED <<requests, crawlVars, levelVars, traceVars, first_run, disk_version>>

\* Both systems take WatchState mutably: the watcher system runs between
\* runs of the handler, never inside one.
RaceWatchTrigger == handling = NoneOpt /\ WatchTrigger

NextRace ==
    \/ RaceUserRequest
    \/ BeginHandle
    \/ SourceChange
    \/ EndHandle
    \/ RaceWatchTrigger
    \/ Tick

\* The schedule runs both systems every frame and time passes; the user and
\* the editor may stop at any time.
SpecRace ==
    /\ InitApp
    /\ [][NextRace]_vars
    /\ WF_vars(BeginHandle)
    /\ WF_vars(EndHandle)
    /\ WF_vars(RaceWatchTrigger)
    /\ WF_vars(Tick)

\* The canvas shows the directory, a watcher for it is installed, and the
\* files have changed since the router read them.
Stale ==
    /\ handling = NoneOpt
    /\ watch.watch_path = Some(RaceRoot)
    /\ watch.watcher = Some(RaceRoot)
    /\ shown_version < disk_version

\* A crawl request for the directory has been written and not yet read.
RecrawlRequested == \E i \in DOMAIN requests : trim(requests[i].path) = RaceRoot

\* C29: a change to a source file is not lost, also when it is made while a
\* crawl request is being handled, after the router has read the files and
\* before the new watcher and channel are installed: whenever the canvas is
\* behind the files, a crawl request for the directory is eventually written.
C29_ChangeNotLost == Stale ~> RecrawlRequested

-----------------------------------------------------------------------------
(* find_traced_paths (crawler/tracing.rs 12-75)                             *)

MaxTraceEdges == 4

\* Entities: three nodes, and one edge entity per position of the edge list.
TraceNodes == {<<"n1">>, <<"n2">>, <<"n3">>}

EdgeEntity(i) == <<"e", ToString(i)>>

\* The edge lists handle_trace_requests can collect: (edge_entity, source, target).
TraceEdgeLists ==
    UNION {{[i \in 1..k |-> <<EdgeEntity(i), st[i][1], st[i][2]>>] :
               st \in [1..k -> TraceNodes \X TraceNodes]} : k \in 0..MaxTraceEdges}

\* adj.entry(*src).or_default().push((*edge_ent, *trg)), edge by edge.
RECURSIVE build_adj(_, _, _)
build_adj(edges, i, adj) ==
    IF i > Len(edges) THEN adj
    ELSE build_adj(edges, i + 1, MapPush(adj, edges[i][2], <<edges[i][1], edges[i][3]>>))

\* The entities of the current path: every node and the edge used to reach it.
path_entities(path) ==
    {path[i][1] : i \in DOMAIN path}
    \cup {path[i][2][1] : i \in {j \in DOMAIN path : path[j][2] # NoneOpt}}

visited_kept(visited, current) == visited

\* visited.remove(&current)
visited_remove(visited, current) == visited \ {current}

\* fn dfs: st holds the mutable visited, path and result_set.
RECURSIVE dfs(_, _, _, _)
RECURSIVE dfs_neighbors(_, _, _, _, _)
dfs(current, target, adj, st) ==
    IF current = target
    THEN [st EXCEPT !.result_set = @ \cup path_entities(st.path) \cup {current}]
    ELSE LET st1 == [st EXCEPT !.visited = @ \cup {current}]
             st2 == IF current \in DOMAIN adj
                    THEN dfs_neighbors(current, target, adj, 1, st1)
                    ELSE st1
         IN  [st2 EXCEPT !.visited = visited_remove(@, current)]

dfs_neighbors(current, target, adj, i, st) ==
    IF i > Len(adj[current]) THEN st
    ELSE LET edge      == adj[current][i][1]
             next_node == adj[current][i][2]
             st1 == IF next_node \in st.visited THEN st
                    ELSE LET pushed == [st EXCEPT !.path = Append(@, <<next_node, Some(edge)>>)]
                             back   == dfs(next_node, target, adj, pushed)
                         IN  [back EXCEPT !.path = SubSeq(@, 1, Len(@) - 1)]
         IN  IF st1.result_set \subseteq st1.result_set
             THEN dfs_neighbors(current, target, adj, i + 1, st1)
             ELSE st1

\* tracing.rs 152-157: handle_trace_requests collects the edges and calls.
InitTrace ==
    /\ trace_edges \in TraceEdgeLists
    /\ trace_source = <<"n1">>
    /\ trace_sink \in {<<"n1">>, <<"n2">>}
    /\ tpc = "adj"
    /\ trace_adj = EmptyMap
    /\ trace_result = {}
    /\ CrawlIdle
    /\ LevelsIdle
    /\ AppIdle

\* tracing.rs 18-22: the adjacency list.
BuildAdjacency ==
    /\ tpc = "adj"
    /\ trace_adj' = build_adj(trace_edges, 1, EmptyMap)
    /\ tpc' = "dfs"
    /\ UNCHANGED <<trace_edges, trace_source, trace_sink, trace_result>>
    /\ UNCHANGED <<crawlVars, levelVars, appVars, first_run, disk_version, shown_version,
                   handling>>

\* tracing.rs 27-74: the search from the source, and the return.
RunDfs ==
    /\ tpc = "dfs"
    /\ trace_result' = dfs(trace_source, trace_sink, trace_adj,
                           [visited |-> {}, path |-> <<<<trace_source, NoneOpt>>>>,
                            result_set |-> {}]).result_set
    /\ tpc' = "done"
    /\ UNCHANGED <<trace_edges, trace_source, trace_sink, trace_adj>>
    /\ UNCHANGED <<crawlVars, levelVars, appVars, first_run, disk_version, shown_version,
                   handling>>

NextTrace ==
    \/ BuildAdjacency
    \/ RunDfs

SpecTrace == InitTrace /\ [][NextTrace]_vars

\* The sequences of positions of the edge list that spell a simple path from
\* the source to the sink: consecutive edges, no node entered twice.
SimplePaths ==
    {p \in UNION {[1..k -> DOMAIN trace_edges] : k \in 1..Len(trace_edges)} :
        /\ trace_edges[p[1]][2] = trace_source
        /\ trace_edges[p[Len(p)]][3] = trace_sink
        /\ \A j \in 1..(Len(p) - 1) : trace_edges[p[j]][3] = trace_edges[p[j + 1]][2]
        /\ \A j \in DOMAIN p : trace_edges[p[j]][3] # trace_source
        /\ \A i, j \in DOMAIN p : i # j => trace_edges[p[i]][3] # trace_edges[p[j]][3]}

\* The nodes and edges on a path.
OnPath(p) ==
    {trace_source}
    \cup {trace_edges[p[j]][3] : j \in DOMAIN p}
    \cup {trace_edges[p[j]][1] : j \in DOMAIN p}

\* The nodes reachable from the source along the edges.
RECURSIVE TraceReach(_)
TraceReach(S) ==
    LET T == S \cup {trace_edges[i][3] : i \in {j \in DOMAIN trace_edges :
                                                    trace_edges[j][2] \in S}}
    IN  IF T = S THEN S ELSE TraceReach(T)

TraceDone == tpc = "done"

\* C30: find_traced_paths returns exactly the nodes and edges that lie on a
\* simple path from the source to the sink, the source alone when source and
\* sink are the same node, and the empty set when the sink cannot be reached.
C30_TracedPathsAreSimplePaths ==
    TraceDone =>
        /\ trace_source = trace_sink => trace_result = {trace_source}
        /\ trace_source # trace_sink =>
              trace_result = UNION {OnPath(p) : p \in SimplePaths}
        /\ trace_sink \notin TraceReach({trace_source}) => trace_result = {}

\* A finished search on a graph with a cycle through the source, two simple
\* paths to the sink, and an edge out of a reachable node that is on neither.
C30_Witness ==
    /\ TraceDone
    /\ trace_source # trace_sink
    /\ Cardinality(SimplePaths) >= 2
    /\ \E i \in DOMAIN trace_edges :
          /\ trace_edges[i][3] = trace_source
          /\ trace_edges[i][2] \in TraceReach({trace_source}) \ {trace_source}
          /\ trace_edges[i][1] \notin trace_result
    /\ <<"n3">> \in trace_result

====
